---- MODULE Spec2Model ----
(***************************************************************************)
(* SubtranSlate: subtitle translation.                                     *)
(*                                                                         *)
(* The parts of the program are modelled each under a specification of    *)
(* its own:                                                                *)
(*   SpecRealign  SubtitleProcessor.sen_list2dialog_list on one bucket     *)
(*   SpecMass     SubtitleProcessor.compute_mass_list on index lists       *)
(*   SpecAlign    triple_r -> split_and_record -> compute_mass_list ->     *)
(*                sen_list2dialog_list, as chained by _translate_split,    *)
(*                and the naive mode of _translate_naive                   *)
(*   SpecClient   GoogleTranslator.translate_lines down to the HTTP calls  *)
(*   LiveClient   SpecClient under weak fairness of its steps              *)
(*   Spec         SubtitleTranslator.translate_file and its checkpoint     *)
(*   SpecBatch    SubtitleTranslator.batch_translate_directory             *)
(*   SpecSerial   to_serialized, the checkpoint file and from_serialized   *)
(*   SpecSplit    triple_r and split_and_record on whole sentences         *)
(*   SpecDecode   GoogleTranslator.translate on a decoded response         *)
(*   SpecPost     the retry loop of GoogleTranslator.__post                *)
(*   SpecFrame    translate_file and batch_translate_directory, one call   *)
(*                at a time                                                *)
(*                                                                         *)
(* Text is a sequence of one-character strings.  Python indices are kept   *)
(* 0-based in the operators' arguments and results, as in the source.      *)
(***************************************************************************)
EXTENDS Integers, Sequences, FiniteSets, TLC

VARIABLES
    \* ---- aligner (subtitle.py) ----
    aPc,          \* position in the split pipeline
    entries,      \* contents of the subtitle entries
    plain_text,   \* triple_r: flattened text
    dialog_idx,   \* triple_r: DialogueIndex
    sen_list,     \* split_and_record: sentences
    sen_idx,      \* split_and_record: SentenceIndex
    mass_list,    \* compute_mass_list result
    trans,        \* translated_sen_list handed to sen_list2dialog_list
    space,        \* target language is space-delimited
    cn,           \* target language is Chinese
    cuts,         \* per sentence: the cut indices computed for its bucket
    jieba_run,    \* what jieba did during sen_list2dialog_list
    dialog_list,  \* sen_list2dialog_list result
    result,       \* contents of the translated entries
    mode,         \* "naive" or "split"
    backend_lines, \* number of lines of the text the backend returned
    \* ---- translation client (translation.py) ----
    cPc,          \* position in translate_lines
    text_list,    \* the lines to translate: [len, blank] each
    api_key,      \* TRUE: keyed API mode, FALSE: unauthenticated mode
    tl_i,         \* translate_lines: loop index i (0-based)
    tl_last_idx,  \* translate_lines: last_idx, start of the batch (0-based)
    tl_total_length, \* translate_lines: total_length
    translated,   \* translate_lines: translated text so far (tokens)
    cur_call,     \* the translate() call in progress
    sent,         \* the batches translate() was called with
    cooldowns,    \* number of 30 s sleeps of translate_lines
    failed,       \* some backend contact of this run failed
    raised,       \* exception type the caller of translate_lines receives
    hook_calls,   \* the calls of progress_callback: [current, total, text]
    \* ---- translate_file (main.py) ----
    fPc,              \* position in translate_file
    resume,           \* the resume argument of the run
    checkpoint_file,  \* what the checkpoint file on disk holds
    checkpoint_at_call, \* what it held when the run was called
    checkpoint_data,  \* what the run loaded from it
    subtitles,        \* where the run's entries come from
    translated_subtitles, \* what the run hands to save_file
    tf_retry_count,   \* loop variable of the for retry_count in range(3) loop
    log,              \* parse calls, pipeline calls and file writes of the run
    output_file,      \* what the output file on disk holds
    error,            \* exception type that left the run
    runs,             \* number of translate_file calls so far
    translator,       \* the class of self.translator
    done_batches,     \* batches translate_lines has translated in this call
    partial_translation, \* batches in the partial_translation on disk
    loaded_partial,   \* batches in the partial_translation the run loaded
    output_batches,   \* batches whose translation the output file holds
    interrupted_done, \* done_batches when the run before was interrupted
    \* ---- batch_translate_directory (main.py) ----
    bPc,              \* position in batch_translate_directory
    b_resume,         \* the resume argument of the batch call
    batch_state_file, \* the BatchState file on disk: "absent" or its content
    loaded_state,     \* batch_state as loaded at the start of the call
    batch_state,      \* batch_state: file -> recorded status
    results,          \* results: file -> reported status
    b_i,              \* index of the next file of input_files
    attempts,         \* the files translate_file was invoked for, in order
    causes,           \* per file: what happened while it was translated
    b_sleeps,         \* the time.sleep calls of the batch call: <<file, t>>
    b_error,          \* exception type that left the batch call
    b_runs,           \* number of batch calls so far
    \* ---- serialization of the entries (subtitle.py, main.py) ----
    sPc,              \* position in the round trip
    s_subtitles,      \* the parsed entries
    serialized,       \* to_serialized(subtitles)
    on_disk,          \* "parsed_subtitles" as stored in the checkpoint file
    restored,         \* from_serialized result
    \* ---- decoding of the unauthenticated response (translation.py) ----
    dPc,              \* position in GoogleTranslator.translate
    obj_result,       \* json.loads(result): the parsed response
    decoded,          \* the text translate returns
    \* ---- retries of one request (translation.py) ----
    pPc,              \* position in GoogleTranslator.__post
    post_retry,       \* retry_count of __post
    slept             \* the time.sleep calls of __post, in milliseconds

alignVars == <<aPc, entries, plain_text, dialog_idx, sen_list, sen_idx,
               mass_list, trans, space, cn, cuts, jieba_run, dialog_list,
               result, mode, backend_lines>>

clientVars == <<cPc, text_list, api_key, tl_i, tl_last_idx, tl_total_length,
                translated, cur_call, sent, cooldowns, failed, raised,
                hook_calls>>

fileVars == <<fPc, resume, checkpoint_file, checkpoint_at_call,
              checkpoint_data, subtitles, translated_subtitles,
              tf_retry_count,
              log, output_file, error, runs, translator, done_batches,
              partial_translation, loaded_partial, output_batches,
              interrupted_done>>

batchVars == <<bPc, b_resume, batch_state_file, loaded_state, batch_state,
               results, b_i, attempts, causes, b_sleeps, b_error, b_runs>>

serialVars == <<sPc, s_subtitles, serialized, on_disk, restored>>

decodeVars == <<dPc, obj_result, decoded>>

postVars == <<pPc, post_retry, slept>>

vars == <<alignVars, clientVars, fileVars, batchVars, serialVars,
          decodeVars, postVars>>

\* what the actions of one part leave alone
notAlign == <<clientVars, fileVars, batchVars, serialVars, decodeVars,
              postVars>>
notClient == <<alignVars, fileVars, batchVars, serialVars, decodeVars,
               postVars>>
notFile == <<alignVars, clientVars, batchVars, serialVars, decodeVars,
             postVars>>
notBatch == <<alignVars, clientVars, fileVars, serialVars, decodeVars,
              postVars>>
notSerial == <<alignVars, clientVars, fileVars, batchVars, decodeVars,
               postVars>>
notDecode == <<alignVars, clientVars, fileVars, batchVars, serialVars,
               postVars>>
notPost == <<alignVars, clientVars, fileVars, batchVars, serialVars,
             decodeVars>>

\* translate_file before its first call
FileAtRest ==
    /\ fPc = "idle"
    /\ resume = FALSE
    /\ checkpoint_file = "absent"
    /\ checkpoint_at_call = "absent"
    /\ checkpoint_data = "none"
    /\ subtitles = "none"
    /\ translated_subtitles = "none"
    /\ tf_retry_count = 0
    /\ log = <<>>
    /\ output_file = "absent"
    /\ error = "none"
    /\ runs = 0
    /\ done_batches = 0
    /\ partial_translation = 0
    /\ loaded_partial = 0
    /\ output_batches = 0
    /\ interrupted_done = -1

\* translate_file at rest, for the specifications that do not run it
FileIdle ==
    /\ FileAtRest
    /\ translator = "GoogleTranslator"

\* bounds of the batch model: matched files, batch calls
MaxFiles == 3
MaxBatchRuns == 2

\* the matched files of the input directory, in the order of input_files
Files == 1..MaxFiles

\* a mapping with no entry for any file
NoEntries == [f \in Files |-> "none"]

\* no BatchState file on disk
NoStateFile == [exists |-> FALSE, torn |-> FALSE, data |-> NoEntries]

\* no serialization under way
SerialIdle ==
    /\ sPc = "idle"
    /\ s_subtitles = <<>>
    /\ serialized = <<>>
    /\ on_disk = <<>>
    /\ restored = <<>>

\* no response being decoded
DecodeIdle ==
    /\ dPc = "idle"
    /\ obj_result = <<>>
    /\ decoded = <<>>

\* no request under way
PostIdle ==
    /\ pPc = "idle"
    /\ post_retry = 0
    /\ slept = <<>>

\* batch_translate_directory before its first call
BatchIdle ==
    /\ bPc = "idle"
    /\ b_resume = FALSE
    /\ batch_state_file = NoStateFile
    /\ loaded_state = NoEntries
    /\ batch_state = NoEntries
    /\ results = NoEntries
    /\ b_i = 1
    /\ attempts = <<>>
    /\ causes = NoEntries
    /\ b_sleeps = <<>>
    /\ b_error = "none"
    /\ b_runs = 0

----------------------------------------------------------------------------
\* Bounds of the model

MaxSenLen == 4
MaxOff == 4
MaxEntries == 2
MaxLines == 3
MaxRuns == 3
MaxProgress == 1
MaxBatches == 2

----------------------------------------------------------------------------
\* Python helpers

Min(a, b) == IF a < b THEN a ELSE b
Max(a, b) == IF a > b THEN a ELSE b

\* Python slice index normalisation for a sequence of length n
NormIdx(i, n) == IF i < 0 THEN Max(i + n, 0) ELSE Min(i, n)

\* s[a:b]
Slice(s, a, b) ==
    LET aa == NormIdx(a, Len(s))
        bb == NormIdx(b, Len(s))
    IN IF aa >= bb THEN <<>> ELSE SubSeq(s, aa + 1, bb)

\* s[a:]
SliceFrom(s, a) == Slice(s, a, Len(s))

RECURSIVE Concat(_)
\* "".join(list)
Concat(ss) == IF ss = <<>> THEN <<>> ELSE Head(ss) \o Concat(Tail(ss))

\* all sequences over S of length at most n
SeqsUpTo(S, n) == UNION {[1..k -> S] : k \in 0..n}

WhiteSpace == {" "}
Upper == {"H", "T"}
Lower == {"a", "b", "d", "e", "h", "i", "l", "o", "r", "s", "t", "w", "x", "y"}
Letter == Upper \cup Lower
WordChar == Letter
Terminal == {".", "?", "!"}

\* s.rstrip()
RECURSIVE rstrip(_)
rstrip(s) ==
    IF s # <<>> /\ s[Len(s)] \in WhiteSpace
    THEN rstrip(SubSeq(s, 1, Len(s) - 1))
    ELSE s

\* s.strip() is empty
IsBlank(s) == \A k \in 1..Len(s) : s[k] \in WhiteSpace

----------------------------------------------------------------------------
\* Splitter (subtitle.py)

\* Splitter.pattern matches the character at 1-based position p of text:
\*   (?<!\w\.\w.)(?<![A-Z][a-z]\.)(?<!\b[A-Za-z]\.)(?<=\.|\?|\!)\s
pattern(text, p) ==
    /\ text[p] \in WhiteSpace
    /\ p >= 2
    /\ text[p - 1] \in Terminal
    /\ ~ (/\ p >= 5
          /\ text[p - 4] \in WordChar
          /\ text[p - 3] = "."
          /\ text[p - 2] \in WordChar)
    /\ ~ (/\ p >= 4
          /\ text[p - 3] \in Upper
          /\ text[p - 2] \in Lower
          /\ text[p - 1] = ".")
    /\ ~ (/\ p >= 3
          /\ text[p - 2] \in Letter
          /\ text[p - 1] = "."
          /\ (p - 2 = 1 \/ text[p - 3] \notin WordChar))

RECURSIVE raw_splits(_, _, _)
\* pattern.split(text): the parts between the matched characters;
\* from is the 1-based start of the current part, p the scan position
raw_splits(text, from, p) ==
    IF p > Len(text) THEN <<SubSeq(text, from, Len(text))>>
    ELSE IF pattern(text, p)
         THEN <<SubSeq(text, from, p - 1)>> \o raw_splits(text, p + 1, p + 1)
         ELSE raw_splits(text, from, p + 1)

\* Splitter.split
split(text) ==
    IF text = <<>> THEN <<>>
    ELSE LET raw == raw_splits(text, 1, 1)
         IN [k \in 1..Len(raw) |->
               IF k = 1
               THEN IF raw[k] # <<>> /\ raw[k][Len(raw[k])] = "."
                    THEN SubSeq(raw[k], 1, Len(raw[k]) - 1)
                    ELSE raw[k]
               ELSE IF raw[k] = <<>> \/ raw[k][1] # " "
                    THEN <<" ">> \o raw[k]
                    ELSE raw[k]]

----------------------------------------------------------------------------
\* SubtitleProcessor (subtitle.py)

RECURSIVE triple_r_idx(_, _)
\* the dialog_idx list of triple_r; entry contents hold no line break here
triple_r_idx(subs, current_idx) ==
    IF subs = <<>> THEN <<>>
    ELSE LET c == current_idx + Len(Head(subs)) + 1
         IN <<c>> \o triple_r_idx(Tail(subs), c)

RECURSIVE triple_r_text(_)
triple_r_text(subs) ==
    IF subs = <<>> THEN <<>>
    ELSE Head(subs) \o <<" ">> \o triple_r_text(Tail(subs))

\* triple_r: (plain text, dialogue indices)
triple_r(subs) ==
    [text |-> rstrip(triple_r_text(subs)), idx |-> triple_r_idx(subs, 0)]

RECURSIVE sen_idx_of(_, _)
sen_idx_of(sens, current_idx) ==
    IF sens = <<>> THEN <<>>
    ELSE LET c == current_idx + Len(Head(sens)) + 1
         IN <<c>> \o sen_idx_of(Tail(sens), c)

\* split_and_record: (sentence list, sentence indices)
split_and_record(text) ==
    LET sl == split(text)
    IN [sens |-> sl, idx |-> <<0>> \o sen_idx_of(sl, 0)]

RECURSIVE mass_loop(_, _, _, _, _, _)
\* the while loop of compute_mass_list; i and j are the 0-based indices of
\* the source.  err is the IndexError of reading sen_idx[j] past its end.
mass_loop(d_idx, s_idx, i, j, ml, one_sentence) ==
    IF i >= Len(d_idx)
    THEN [err |-> FALSE,
          ml |-> IF one_sentence # <<>> THEN Append(ml, one_sentence) ELSE ml]
    ELSE IF j >= Len(s_idx)
         THEN [err |-> TRUE, ml |-> <<>>]
         ELSE IF d_idx[i + 1] > s_idx[j + 1]
              THEN mass_loop(d_idx, s_idx, i, j + 1,
                             Append(ml, one_sentence), <<>>)
              ELSE mass_loop(d_idx, s_idx, i + 1, j, ml,
                             Append(one_sentence,
                                    <<i + 1, d_idx[i + 1] - s_idx[j]>>))

\* a mass list whose offsets are the dialogue ends themselves, measured
\* from the start of the text and not from the start of the sentence
compute_mass_list_absolute(d_idx, s_idx) ==
    LET r == mass_loop(d_idx, s_idx, 0, 1, <<>>, <<>>)
    IN [err |-> r.err,
        ml |-> [j \in 1..Len(r.ml) |->
                  [k \in 1..Len(r.ml[j]) |->
                     <<r.ml[j][k][1], d_idx[r.ml[j][k][1]]>>]]]

compute_mass_list(d_idx, s_idx) == mass_loop(d_idx, s_idx, 0, 1, <<>>, <<>>)

\* 0-based positions of the spaces of sentence
SpacesOf(sentence) == {p \in 0..(Len(sentence) - 1) : sentence[p + 1] = " "}

\* str.rfind(' ') on sentence[:current_idx]
rfind_space(sentence, current_idx) ==
    LET S == {p \in SpacesOf(sentence) : p < current_idx}
    IN IF S = {} THEN -1 ELSE CHOOSE p \in S : \A q \in S : q <= p

\* str.find(' ') on sentence[current_idx:]
find_space(sentence, current_idx) ==
    LET S == {p \in SpacesOf(sentence) : p >= current_idx}
    IN IF S = {} THEN -1
       ELSE (CHOOSE p \in S : \A q \in S : p <= q) - current_idx

\* get_nearest_space returning the index of the space, not the one after it
get_nearest_space_at(sentence, current_idx) ==
    IF sentence = <<>> THEN 0
    ELSE LET left_idx == rfind_space(sentence, current_idx)
             right_idx == find_space(sentence, current_idx)
         IN IF left_idx = -1 /\ right_idx = -1 THEN current_idx
            ELSE IF left_idx = -1 THEN right_idx + current_idx
            ELSE IF right_idx = -1 THEN left_idx
            ELSE IF current_idx - left_idx > right_idx
                 THEN right_idx + current_idx
                 ELSE left_idx

get_nearest_space(sentence, current_idx) ==
    IF sentence = <<>> THEN 0
    ELSE LET left_idx == rfind_space(sentence, current_idx)
             right_idx == find_space(sentence, current_idx)
         IN IF left_idx = -1 /\ right_idx = -1 THEN current_idx
            ELSE IF left_idx = -1 THEN right_idx + current_idx + 1
            ELSE IF right_idx = -1 THEN left_idx + 1
            ELSE IF current_idx - left_idx > right_idx
                 THEN right_idx + current_idx + 1
                 ELSE left_idx + 1

\* scope parameter of get_nearest_split_cn
Scope == 6

\* One call of jieba.cut as seen by get_nearest_split_cn.  jieba is an
\* external library: a call either raises, or returns words that partition
\* the window; the partition is given by the set B of absolute positions of
\* the sentence at which a word ends.
RelEnds(jc, last, wlen) ==
    {b - last : b \in {x \in jc.B : last < x /\ x < last + wlen}}
        \cup (IF wlen > 0 THEN {wlen} ELSE {})

\* get_nearest_split_cn with a window that always starts scope characters
\* before the target, also when the previous cut lies after that
get_nearest_split_cn_unclamped(sentence, current_idx, last_idx0, jieba, call) ==
    IF ~jieba.avail THEN current_idx
    ELSE IF sentence = <<>> THEN 0
    ELSE LET last_idx == Max(0, current_idx - Scope)
             next_idx == Min(current_idx + Scope, Len(sentence))
             window == Slice(sentence, last_idx, next_idx)
             jc == jieba.calls[call]
             ends == RelEnds(jc, last_idx, Len(window))
             target_idx == current_idx - last_idx
             reach == {e \in ends : e >= target_idx}
             total_len == IF ends = {} THEN 0
                          ELSE IF reach = {} THEN Len(window)
                          ELSE CHOOSE e \in reach : \A f \in reach : e <= f
             comma == /\ total_len < Len(window)
                      /\ window[total_len + 1] = "c,"
                      /\ total_len + 1 \in ends
         IN IF jc.fail THEN current_idx
            ELSE (IF comma THEN total_len + 1 ELSE total_len) + last_idx

\* jieba is [avail |-> JIEBA_AVAILABLE, calls |-> one jieba.cut outcome per
\* call made for a bucket]
get_nearest_split_cn(sentence, current_idx, last_idx0, jieba, call) ==
    IF ~jieba.avail THEN current_idx
    ELSE IF sentence = <<>> THEN 0
    ELSE LET last_idx == Max(last_idx0, current_idx - Scope)
             next_idx == Min(current_idx + Scope, Len(sentence))
             window == Slice(sentence, last_idx, next_idx)
             jc == jieba.calls[call]
             ends == RelEnds(jc, last_idx, Len(window))
             target_idx == current_idx - last_idx
             reach == {e \in ends : e >= target_idx}
             \* total_len after the for loop
             total_len == IF ends = {} THEN 0
                          ELSE IF reach = {} THEN Len(window)
                          ELSE CHOOSE e \in reach : \A f \in reach : e <= f
             \* words[word_idx] exists and is the full-width comma
             comma == /\ total_len < Len(window)
                      /\ window[total_len + 1] = "c,"
                      /\ total_len + 1 \in ends
         IN IF jc.fail THEN current_idx
            ELSE (IF comma THEN total_len + 1 ELSE total_len) + last_idx

RECURSIVE bucket_cuts(_, _, _, _, _, _, _)
\* the cut indices current_idx computed by the loop over the pairs of a
\* multi-pair record but the last; l is 1-based here
bucket_cuts(sentence, record, l, last_idx, sp, ch, jieba) ==
    IF l > Len(record) - 1 THEN <<>>
    ELSE LET origin_len == record[Len(record)][2]
             translated_len == Len(sentence)
             \* int(translated_len * record[l][1] / origin_len)
             cand == (translated_len * record[l][2]) \div origin_len
             current_idx ==
                 IF sp /\ ~ch THEN get_nearest_space(sentence, cand)
                 ELSE IF ch
                      THEN get_nearest_split_cn(sentence, cand, last_idx,
                                                jieba, l)
                      ELSE cand
         IN <<current_idx>> \o
            bucket_cuts(sentence, record, l + 1, current_idx, sp, ch, jieba)

\* dialog_list[d - 1] += frag, guarded as in the multi-pair branch
AddGuarded(dl, d, frag) ==
    IF d - 1 < Len(dl) THEN [dl EXCEPT ![d] = @ \o frag] ELSE dl

RECURSIVE add_fragments(_, _, _, _, _, _)
\* appends sentence[last_idx:current_idx] for every pair but the last
add_fragments(dl, sentence, record, cs, l, last_idx) ==
    IF l > Len(cs) THEN dl
    ELSE add_fragments(
             AddGuarded(dl, record[l][1], Slice(sentence, last_idx, cs[l])),
             sentence, record, cs, l + 1, cs[l])

\* the fragment the single-pair branch appends: sentence[0:record[0][1]]
single_fragment(sentence, record) == Slice(sentence, 0, record[1][2])

\* the body of the for k loop for one sentence with a non-empty record
realign_sentence(dl, sentence, record, cs) ==
    IF Len(record) = 1
    THEN [dl EXCEPT ![record[1][1]] = @ \o single_fragment(sentence, record)]
    ELSE LET n == Len(record)
             last_cut == IF cs = <<>> THEN 0 ELSE cs[Len(cs)]
             d1 == add_fragments(dl, sentence, record, cs, 1, 0)
         IN AddGuarded(d1, record[n][1], SliceFrom(sentence, last_cut))

RECURSIVE sen_loop(_, _, _, _, _, _, _, _)
\* the for k loop; returns the dialogue list and, per sentence handled, the
\* cut indices computed for it
sen_loop(sens, ml, k, dl, cs_acc, sp, ch, jieba) ==
    IF k > Len(sens) \/ k > Len(ml) THEN [dl |-> dl, cuts |-> cs_acc]
    ELSE IF ml[k] = <<>>
         THEN sen_loop(sens, ml, k + 1, dl, Append(cs_acc, <<>>), sp, ch, jieba)
         ELSE LET cs == IF Len(ml[k]) = 1 THEN <<>>
                        ELSE bucket_cuts(sens[k], ml[k], 1, 0, sp, ch, jieba)
              IN sen_loop(sens, ml, k + 1,
                          realign_sentence(dl, sens[k], ml[k], cs),
                          Append(cs_acc, cs), sp, ch, jieba)

sen_list2dialog_list(sens, ml, sp, ch, jieba) ==
    IF sens = <<>> \/ ml = <<>> THEN [dl |-> <<>>, cuts |-> <<>>]
    ELSE LET last == ml[Len(ml)]
             dialog_num == IF last # <<>> THEN last[Len(last)][1] ELSE 0
         IN IF dialog_num = 0 THEN [dl |-> <<>>, cuts |-> <<>>]
            ELSE sen_loop(sens, ml, 1, [d \in 1..dialog_num |-> <<>>], <<>>,
                          sp, ch, jieba)

----------------------------------------------------------------------------
\* GoogleTranslator (translation.py)

max_limited == 3500
max_retries == 5

\* the client at rest, for the specifications that do not run it
NoCall == [from |-> 0, to |-> 0, final |-> FALSE, retrying |-> FALSE,
           retry_count |-> 0, domain |-> 1, contacts |-> 0, backoffs |-> 0,
           all_transient |-> TRUE, all_429 |-> TRUE, fatal |-> FALSE]

ClientIdle ==
    /\ cPc = "idle"
    /\ text_list = <<>>
    /\ api_key = FALSE
    /\ tl_i = 0
    /\ tl_last_idx = 0
    /\ tl_total_length = 0
    /\ translated = <<>>
    /\ cur_call = NoCall
    /\ sent = <<>>
    /\ cooldowns = 0
    /\ failed = FALSE
    /\ raised = "none"
    /\ hook_calls = <<>>

\* the request counter of a translate() call is not counted beyond this
MaxContacts == 13

\* what the backend does with one request
Responses == {"ok", "http429", "http5xx", "http4xx", "neterr", "garbled"}
Transient == {"http5xx", "neterr"}

\* the number of domains __translate_without_api tries
NumDomains == 2

\* One pass of the while loop of __post for a backend response resp:
\* return the body, sleep and continue, or raise
post_outcome(resp, retry_count) ==
    CASE resp \in {"ok", "garbled"} ->
            [k |-> "return", rc |-> retry_count, err |-> "none"]
      [] resp \in {"http429", "http5xx"} ->
            IF retry_count + 1 <= max_retries
            THEN [k |-> "retry", rc |-> retry_count + 1, err |-> "none"]
            ELSE [k |-> "raise", rc |-> retry_count + 1,
                  err |-> "RateLimitError"]
      [] resp = "http4xx" ->
            [k |-> "raise", rc |-> retry_count, err |-> "TranslationError"]
      [] OTHER ->
            IF retry_count + 1 <= max_retries
            THEN [k |-> "retry", rc |-> retry_count + 1, err |-> "none"]
            ELSE [k |-> "raise", rc |-> retry_count + 1,
                  err |-> "TranslationError"]

\* a handler that sleeps and continues without counting the retry
api_retry_uncounted(retry_count) ==
    [k |-> "retry", rc |-> retry_count, err |-> "none"]

\* the handlers of __translate_with_api that count a retry: sleep and
\* continue, or raise once the retries are used up
api_retry(retry_count) ==
    IF retry_count + 1 <= max_retries
    THEN [k |-> "retry", rc |-> retry_count + 1, err |-> "none"]
    ELSE [k |-> "raise", rc |-> retry_count + 1, err |-> "TranslationError"]

\* One pass of the while loop of __translate_with_api.  An exception raised
\* inside the try block (the RateLimitError and TranslationError of the
\* status checks) is caught by the except Exception clause of the same try.
api_outcome(resp, retry_count) ==
    CASE resp = "ok" -> [k |-> "return", rc |-> retry_count, err |-> "none"]
      [] resp \in {"http429", "http5xx"} ->
            IF retry_count + 1 <= max_retries
            THEN [k |-> "retry", rc |-> retry_count + 1, err |-> "none"]
            ELSE api_retry(retry_count + 1)
      [] OTHER -> api_retry(retry_count)

\* translate(): the exception type that leaves it when __translate raised
\* err, or when the unauthenticated response could not be decoded
translate_raises(err) == "TranslationError"

\* translate_lines: the exception type that leaves it for an exception err
\* raised inside its outer try
translate_lines_raises(err) == "TranslationError"

\* the translation of lines from+1 .. to (1-based) when the backend returns
\* one translated line per input line: token k is the translation of line k,
\* token 0 the line separator
RECURSIVE batch_translation(_, _)
batch_translation(from, to) ==
    IF from >= to THEN <<>>
    ELSE IF from + 1 = to THEN <<to>>
    ELSE batch_translation(from, to - 1) \o <<0, to>>

\* "\n".join(text_list[from:to]).strip() is not empty
batch_not_blank(lines, from, to) ==
    \E k \in (from + 1)..to : ~lines[k].blank

\* a translate() call for text_list[from:to] begins
NewCall(from, to, final, retrying) ==
    [from |-> from, to |-> to, final |-> final, retrying |-> retrying,
     retry_count |-> 0, domain |-> 1, contacts |-> 0, backoffs |-> 0,
     all_transient |-> TRUE, all_429 |-> TRUE, fatal |-> FALSE]

\* translate_lines returns at once for an empty list
ReturnEmpty ==
    /\ cPc = "start"
    /\ text_list = <<>>
    /\ cPc' = "done"
    /\ UNCHANGED <<text_list, api_key, tl_i, tl_last_idx, tl_total_length, translated,
                   cur_call, sent, cooldowns, failed, raised, hook_calls>>
    /\ UNCHANGED notClient

\* one iteration of the for loop up to its translate() call, or all of it
\* when no batch is translated
LoopStep ==
    /\ cPc \in {"start", "loop"}
    /\ text_list # <<>>
    /\ tl_i < Len(text_list)
    /\ LET tl == tl_total_length + text_list[tl_i + 1].len
       IN IF tl > max_limited
          THEN IF batch_not_blank(text_list, tl_last_idx, tl_i)
               THEN /\ cPc' = "attempt"
                    /\ cur_call' = NewCall(tl_last_idx, tl_i, FALSE, FALSE)
                    /\ sent' = Append(sent, <<tl_last_idx, tl_i>>)
                    /\ tl_total_length' = tl
                    /\ UNCHANGED <<tl_i, tl_last_idx>>
               ELSE /\ cPc' = "loop"
                    /\ tl_last_idx' = tl_i
                    /\ tl_total_length' = 0
                    /\ tl_i' = tl_i + 1
                    /\ UNCHANGED <<cur_call, sent>>
          ELSE /\ cPc' = "loop"
               /\ tl_total_length' = tl
               /\ tl_i' = tl_i + 1
               /\ UNCHANGED <<tl_last_idx, cur_call, sent>>
    /\ UNCHANGED <<text_list, api_key, translated, cooldowns, failed, raised,
                   hook_calls>>
    /\ UNCHANGED notClient

\* after the loop: the last batch is translated, or skipped when blank
LastBatch ==
    /\ cPc \in {"start", "loop"}
    /\ text_list # <<>>
    /\ tl_i = Len(text_list)
    /\ IF batch_not_blank(text_list, tl_last_idx, Len(text_list))
       THEN /\ cPc' = "attempt"
            /\ cur_call' = NewCall(tl_last_idx, Len(text_list), TRUE, FALSE)
            /\ sent' = Append(sent, <<tl_last_idx, Len(text_list)>>)
       ELSE /\ cPc' = "done"
            /\ UNCHANGED <<cur_call, sent>>
    /\ UNCHANGED <<text_list, api_key, tl_i, tl_last_idx, tl_total_length, translated,
                   cooldowns, failed, raised, hook_calls>>
    /\ UNCHANGED notClient

\* what one backend contact leads to inside translate(): "retry" (sleep the
\* backoff, contact again), "domain" (the next domain is tried), "return"
\* (translate returns the text) or "raise" (translate raises err)
contact_event(api, resp, c) ==
    LET o == IF api THEN api_outcome(resp, c.retry_count)
             ELSE post_outcome(resp, c.retry_count)
    IN CASE o.k = "retry" -> [k |-> "retry", rc |-> o.rc, err |-> "none"]
         [] o.k = "return" ->
               IF ~api /\ resp = "garbled"
               THEN [k |-> "raise", rc |-> o.rc,
                     err |-> translate_raises("JSONDecodeError")]
               ELSE [k |-> "return", rc |-> o.rc, err |-> "none"]
         [] OTHER ->
               IF ~api /\ c.domain < NumDomains
               THEN [k |-> "domain", rc |-> 0, err |-> "none"]
               ELSE [k |-> "raise", rc |-> o.rc,
                     err |-> translate_raises(o.err)]

\* progress_callback(i, len(text_list), translated) after a batch of the
\* loop, progress_callback(len(text_list), len(text_list), translated) after
\* the last batch
progress_call(c, i, total, text) ==
    [current |-> IF c.final THEN total ELSE i, total |-> total, text |-> text]

\* one request to the backend and everything translate_lines does until the
\* next request, its return or its raise, the call of the progress hook
\* after a translated batch included
Contact ==
    /\ cPc = "attempt"
    /\ \E resp \in Responses :
          LET ev == contact_event(api_key, resp, cur_call)
              c1 == [cur_call EXCEPT
                        !.contacts = Min(@ + 1, MaxContacts),
                        !.retry_count = ev.rc,
                        !.all_transient = @ /\ resp \in Transient,
                        !.all_429 = @ /\ resp = "http429",
                        !.fatal = @ \/ resp = "http4xx"]
          IN /\ failed' = (failed \/ resp # "ok")
             /\ CASE ev.k = "retry" ->
                      /\ cur_call' = [c1 EXCEPT !.backoffs = @ + 1]
                      /\ UNCHANGED <<cPc, tl_i, tl_last_idx, tl_total_length,
                                     translated, cooldowns, raised>>
                  [] ev.k = "domain" ->
                      /\ cur_call' = [c1 EXCEPT !.domain = @ + 1]
                      /\ UNCHANGED <<cPc, tl_i, tl_last_idx, tl_total_length,
                                     translated, cooldowns, raised>>
                  [] ev.k = "return" ->
                      /\ cur_call' = c1
                      /\ UNCHANGED <<cooldowns, raised>>
                      /\ IF cur_call.final
                         THEN /\ translated' = translated \o
                                    batch_translation(cur_call.from, cur_call.to)
                              /\ cPc' = "done"
                              /\ UNCHANGED <<tl_i, tl_last_idx, tl_total_length>>
                         ELSE /\ translated' = translated \o
                                    batch_translation(cur_call.from, cur_call.to)
                                    \o <<0>>
                              /\ tl_last_idx' = tl_i
                              /\ tl_total_length' = 0
                              /\ tl_i' = tl_i + 1
                              /\ cPc' = "loop"
                  [] OTHER ->
                      IF ev.err = "RateLimitError" /\ ~cur_call.retrying
                      THEN /\ cooldowns' = cooldowns + 1
                           /\ cur_call' = NewCall(cur_call.from, cur_call.to, cur_call.final,
                                              TRUE)
                           /\ UNCHANGED <<cPc, tl_i, tl_last_idx, tl_total_length,
                                          translated, raised>>
                      ELSE /\ cur_call' = c1
                           /\ raised' = translate_lines_raises(ev.err)
                           /\ cPc' = "raised"
                           /\ UNCHANGED <<tl_i, tl_last_idx, tl_total_length,
                                          translated, cooldowns>>
    /\ hook_calls' = IF cPc' \in {"loop", "done"}
                     THEN Append(hook_calls, progress_call(cur_call, tl_i,
                                            Len(text_list), translated'))
                     ELSE hook_calls
    /\ UNCHANGED <<text_list, api_key, sent>>
    /\ UNCHANGED notClient

\* lines by length and blankness
LineKinds ==
    {[len |-> 0, blank |-> TRUE], [len |-> 1, blank |-> TRUE],
     [len |-> 1, blank |-> FALSE], [len |-> 2000, blank |-> FALSE],
     [len |-> 3500, blank |-> FALSE], [len |-> 4000, blank |-> FALSE]}

AlignIdle ==
    /\ aPc = "idle"
    /\ entries = <<>>
    /\ plain_text = <<>>
    /\ dialog_idx = <<>>
    /\ sen_list = <<>>
    /\ sen_idx = <<>>
    /\ mass_list = <<>>
    /\ trans = <<>>
    /\ space = FALSE
    /\ cn = FALSE
    /\ cuts = <<>>
    /\ jieba_run = [avail |-> FALSE, calls |-> <<>>]
    /\ dialog_list = <<>>
    /\ result = <<>>
    /\ mode = "split"
    /\ backend_lines = -1

InitClient ==
    /\ cPc = "start"
    /\ text_list \in SeqsUpTo(LineKinds, MaxLines)
    /\ api_key \in BOOLEAN
    /\ tl_i = 0
    /\ tl_last_idx = 0
    /\ tl_total_length = 0
    /\ translated = <<>>
    /\ cur_call = NoCall
    /\ sent = <<>>
    /\ cooldowns = 0
    /\ failed = FALSE
    /\ raised = "none"
    /\ hook_calls = <<>>
    /\ AlignIdle
    /\ FileIdle
    /\ BatchIdle
    /\ SerialIdle
    /\ DecodeIdle
    /\ PostIdle

NextClient ==
    \/ ReturnEmpty
    \/ LoopStep
    \/ LastBatch
    \/ Contact

SpecClient == InitClient /\ [][NextClient]_vars

\* translate_lines runs in one thread that keeps running, and every request
\* answers or fails: a step that can be taken is taken
LiveClient == SpecClient /\ WF_vars(NextClient)

----------------------------------------------------------------------------
\* Properties of SpecClient

\* str.split("\n") on a text of tokens: the separator is token 0
RECURSIVE SplitNL(_)
SplitNL(toks) ==
    IF \A k \in 1..Len(toks) : toks[k] # 0 THEN <<toks>>
    ELSE LET p == CHOOSE k \in 1..Len(toks) :
                     toks[k] = 0 /\ \A j \in 1..(k - 1) : toks[j] # 0
         IN <<SubSeq(toks, 1, p - 1)>> \o
            SplitNL(SubSeq(toks, p + 1, Len(toks)))

\* the total character count of the lines from+1 .. to (1-based)
RECURSIVE batch_chars(_, _, _)
batch_chars(lines, from, to) ==
    IF from >= to THEN 0
    ELSE lines[to].len + batch_chars(lines, from, to - 1)

\* C7: when every request is answered with one translated line per input
\* line, the text translate_lines returns, split on the line separator, has
\* len(lines) elements, its i-th element is the translation of lines[i],
\* and every input line was sent in exactly one request.
C7_LinesPreserved ==
    (cPc = "done" /\ ~failed)
        => LET parts == SplitNL(translated)
           IN /\ Len(parts) = Len(text_list)
              /\ \A k \in 1..Len(text_list) : parts[k] = <<k>>
              /\ \A k \in 1..Len(text_list) :
                    Cardinality({b \in 1..Len(sent) :
                        sent[b][1] < k /\ k <= sent[b][2]}) = 1

\* the translated lines of a text, without the line separators
LinesIn(text) == SelectSeq(text, LAMBDA tok : tok # 0)

\* C26: the progress hook is called once for every translated batch; the
\* line counts it is given strictly increase and never exceed the total;
\* when the call has returned successfully the last count is the total; and
\* the text it is given holds the translations of exactly the first
\* current lines.
C26_ProgressHook ==
    /\ cPc \in {"loop", "done"} => Len(hook_calls) = Len(sent)
    /\ \A k \in 1..Len(hook_calls) :
          /\ hook_calls[k].current <= hook_calls[k].total
          /\ hook_calls[k].total = Len(text_list)
          /\ k > 1 => hook_calls[k - 1].current < hook_calls[k].current
          /\ LinesIn(hook_calls[k].text) =
                [j \in 1..hook_calls[k].current |-> j]
    /\ (cPc = "done" /\ hook_calls # <<>>)
          => hook_calls[Len(hook_calls)].current = Len(text_list)

\* the requests one translate() call can make: max_retries + 1 per domain
\* without a key, max_retries + 1 with a key
RequestBudget(api) ==
    IF api THEN max_retries + 1 ELSE (max_retries + 1) * NumDomains

C8_BatchWithinBudget ==
    (\A k \in 1..Len(text_list) : text_list[k].len <= max_limited)
        => \A b \in 1..Len(sent) :
              /\ sent[b][1] < sent[b][2]
              /\ batch_chars(text_list, sent[b][1], sent[b][2]) <= max_limited

\* C9: when the backend answers a batch with HTTP 429, translate_lines
\* sleeps the 30 s cooldown and retries the batch exactly once, and when the
\* retry is rate-limited again its caller receives a RateLimitError.
C9_RateLimitErrorReachesCaller ==
    (cPc = "raised" /\ cur_call.all_429)
        => /\ raised = "RateLimitError"
           /\ cooldowns = 1
           /\ cur_call.retrying

\* C10: a request whose every attempt fails with a network error or an
\* HTTP 5xx makes the client contact the backend at most 5 times, in both
\* backend modes.
C10_AtMostFiveContacts ==
    (cPc \in {"attempt", "raised"} /\ cur_call.all_transient)
        => cur_call.contacts <= 5

\* C11: an HTTP 4xx answer other than 429 is propagated to the caller as a
\* TranslationError with no sleep and no further backend request for that
\* text, in both backend modes.
C11_FatalPropagatesAtOnce ==
    cur_call.fatal => (cPc = "raised" /\ raised = "TranslationError")

----------------------------------------------------------------------------
\* Specification SpecRealign: sen_list2dialog_list applied to one translated
\* sentence and one bucket

\* characters of translated sentences; "c," stands for the full-width comma
TransChars == {"x", " ", "c,"}

\* records as compute_mass_list builds them: consecutive dialogue numbers
\* from 1, strictly increasing positive offsets
Records ==
    {r \in SeqsUpTo(1..MaxOff, 3) :
        /\ r # <<>>
        /\ \A k \in 1..(Len(r) - 1) : r[k] < r[k + 1]}

RecordOf(r) == [k \in 1..Len(r) |-> <<k, r[k]>>]

\* A jieba.cut call that raises
FailedCut == [fail |-> TRUE, B |-> {}]

\* The outcomes of one jieba.cut call on a sentence of n characters.  What
\* get_nearest_split_cn returns depends only on the first word end at or
\* after the target and on whether a one-character word follows it, so the
\* partitions with at most two inner word ends produce every result.
CutOutcomes(n) ==
    {FailedCut} \cup
    {[fail |-> FALSE, B |-> b] :
        b \in {x \in SUBSET (1..(n - 1)) : Cardinality(x) <= 2}}

NoJieba == [avail |-> FALSE, calls |-> [c \in 1..2 |-> FailedCut]]

\* jieba as seen while one bucket of ncalls + 1 pairs is cut.  jieba.cut
\* raises only out of its lazy initialisation (dictionary load) on a call
\* made before the library is initialised; once a call has returned, the
\* library is initialised and the later calls return too.
Jiebas(n, ncalls) ==
    {NoJieba} \cup
    {[avail |-> TRUE, calls |-> c] :
        c \in {f \in [1..2 -> CutOutcomes(n)] :
                 /\ \A k \in (ncalls + 1)..2 : f[k] = FailedCut
                 /\ \A k \in 2..ncalls : f[k].fail => f[k - 1].fail}}

\* two translated sentences long enough for the +-Scope window of
\* get_nearest_split_cn to clip
LongTrans ==
    {<<"x", "x", "c,", "x", "x", "x", "x", "x", "c,", "x", "x", "x">>,
     <<"x", " ", "x", "x", " ", "x", "x", "x", "x", " ", "x", "x">>}

InitRealign ==
    /\ aPc = "realign"
    /\ entries = <<>>
    /\ plain_text = <<>>
    /\ dialog_idx = <<>>
    /\ sen_list = <<>>
    /\ sen_idx = <<>>
    /\ \E r \in Records : mass_list = <<RecordOf(r)>>
    /\ \E s \in SeqsUpTo(TransChars, MaxSenLen) \cup LongTrans : trans = <<s>>
    /\ space \in BOOLEAN
    /\ cn \in BOOLEAN
    /\ cuts = <<>>
    /\ jieba_run = NoJieba
    /\ dialog_list = <<>>
    /\ result = <<>>
    /\ mode = "split"
    /\ backend_lines = -1
    /\ ClientIdle
    /\ FileIdle
    /\ BatchIdle
    /\ SerialIdle
    /\ DecodeIdle
    /\ PostIdle

\* the longest translated sentence and the largest number of cuts of a bucket
MaxLenOf(ss) == IF ss = <<>> THEN 0
                ELSE CHOOSE n \in {Len(ss[k]) : k \in 1..Len(ss)} :
                        \A k \in 1..Len(ss) : Len(ss[k]) <= n

MaxCutsOf(ml) ==
    LET C == {Len(ml[k]) - 1 : k \in 1..Len(ml)} \cup {0}
    IN CHOOSE n \in C : \A m \in C : m <= n

\* dialog_list = sen_list2dialog_list(translated_sen_list, mass_list, space, cn)
Realign ==
    /\ aPc = "realign"
    /\ \E jieba \in (IF cn THEN Jiebas(MaxLenOf(trans), MaxCutsOf(mass_list))
                           ELSE {NoJieba}) :
          LET r == sen_list2dialog_list(trans, mass_list, space, cn, jieba)
          IN /\ dialog_list' = r.dl
             /\ cuts' = r.cuts
             /\ jieba_run' = jieba
    /\ aPc' = "realigned"
    /\ UNCHANGED <<entries, plain_text, dialog_idx, sen_list, sen_idx,
                   mass_list, trans, space, cn, result, mode,
                   backend_lines>>
    /\ UNCHANGED notAlign

NextRealign == Realign

SpecRealign == InitRealign /\ [][NextRealign]_vars

----------------------------------------------------------------------------
\* Properties of SpecRealign

Abs(n) == IF n < 0 THEN -n ELSE n

C4_SingleBucketWholeSentence ==
    (aPc = "realigned" /\ Len(mass_list) = 1 /\ Len(mass_list[1]) = 1)
        => dialog_list[mass_list[1][1][1]] = trans[1]

\* C6: with a space-delimited, non-Chinese target every cut of a multi-pair
\* bucket lies immediately after a space of the translated sentence, the
\* space nearest to the proportional candidate, whenever the sentence has a
\* space; without a space the cut is the proportional candidate.
C6_CutsSnapToNearestSpace ==
    (aPc = "realigned" /\ Len(mass_list) = 1 /\ Len(mass_list[1]) >= 2
        /\ space /\ ~cn)
        => LET s == trans[1]
               record == mass_list[1]
               origin == record[Len(record)][2]
           IN /\ Len(cuts[1]) = Len(record) - 1
              /\ dialog_list[1] = Slice(s, 0, cuts[1][1])
              /\ \A l \in 1..Len(cuts[1]) :
                    LET c == cuts[1][l]
                        cand == (Len(s) * record[l][2]) \div origin
                    IN IF SpacesOf(s) # {}
                       THEN /\ c >= 1
                            /\ c <= Len(s)
                            /\ s[c] = " "
                            /\ \A p \in SpacesOf(s) :
                                  Abs((c - 1) - cand) <= Abs(p - cand)
                       ELSE c = cand

\* a sentence with spaces on both sides of the candidate, where the nearer
\* one is on the right
C6_Witness ==
    /\ aPc = "realigned"
    /\ Len(mass_list) = 1
    /\ Len(mass_list[1]) = 2
    /\ space /\ ~cn
    /\ LET s == trans[1]
           cand == (Len(s) * mass_list[1][1][2]) \div mass_list[1][2][2]
       IN /\ \E p \in SpacesOf(s) : p < cand
          /\ \E p \in SpacesOf(s) : p >= cand
          /\ cuts[1][1] > cand + 1

----------------------------------------------------------------------------
\* Specification SpecAlign: the split pipeline of _translate_split

\* contents of subtitle entries
Contents ==
    {<<>>, <<"a">>, <<"a", "b">>, <<"a", ".">>, <<"a", "b", ".">>,
     <<"a", "b", "?">>, <<"a", " ", "b">>}

HelloWorld == <<"H", "e", "l", "l", "o", " ", "w", "o", "r", "l", "d", ".">>
ThisIsATest == <<"T", "h", "i", "s", " ", "i", "s", " ", "a", " ",
                 "t", "e", "s", "t", ".">>

\* translated sentences the backend may return
Translations ==
    {<<>>, <<"x">>, <<"x", " ", "x">>, <<"x", "c,", "x", "x">>}

InitAlign ==
    /\ mode \in {"naive", "split"}
    /\ backend_lines = -1
    /\ aPc = IF mode = "split" THEN "triple_r" ELSE "translate_naive"
    /\ entries \in SeqsUpTo(Contents, MaxEntries) \cup {<<HelloWorld, ThisIsATest>>}
    /\ plain_text = <<>>
    /\ dialog_idx = <<>>
    /\ sen_list = <<>>
    /\ sen_idx = <<>>
    /\ mass_list = <<>>
    /\ trans = <<>>
    /\ space \in BOOLEAN
    /\ cn \in BOOLEAN
    /\ cuts = <<>>
    /\ jieba_run = NoJieba
    /\ dialog_list = <<>>
    /\ result = <<>>
    /\ ClientIdle
    /\ FileIdle
    /\ BatchIdle
    /\ SerialIdle
    /\ DecodeIdle
    /\ PostIdle

\* plain_text, dialog_idx = triple_r(subtitles)
TripleR ==
    /\ aPc = "triple_r"
    /\ plain_text' = triple_r(entries).text
    /\ dialog_idx' = triple_r(entries).idx
    /\ aPc' = "split_and_record"
    /\ UNCHANGED <<entries, sen_list, sen_idx, mass_list, trans, space, cn,
                   cuts, jieba_run, dialog_list, result, mode,
                   backend_lines>>
    /\ UNCHANGED notAlign

\* sen_list, sen_idx = split_and_record(plain_text)
SplitAndRecord ==
    /\ aPc = "split_and_record"
    /\ sen_list' = split_and_record(plain_text).sens
    /\ sen_idx' = split_and_record(plain_text).idx
    /\ aPc' = "translate"
    /\ UNCHANGED <<entries, plain_text, dialog_idx, mass_list, trans, space,
                   cn, cuts, jieba_run, dialog_list, result, mode,
                   backend_lines>>
    /\ UNCHANGED notAlign

\* the texts translated_text.split("\n") can give for n source lines: at
\* least one line, and fewer, as many or more lines than the source
BackendLines(n) == UNION {[1..k -> Translations] : k \in 1..(n + 1)}

\* a list that is applied as the backend sent it
pad_or_truncate_never(lines, n) == lines

\* the mismatch handling of _translate_naive and _translate_split: the list
\* is extended with empty strings or cut to the first n elements
pad_or_truncate(lines, n) ==
    IF Len(lines) < n
    THEN lines \o [k \in 1..(n - Len(lines)) |-> <<>>]
    ELSE SubSeq(lines, 1, n)

\* translated_sen_list: the translated text split on line breaks, then padded
\* or truncated to len(sen_list); its elements are whatever the backend sent
TranslateSentences ==
    /\ aPc = "translate"
    /\ \E lines \in BackendLines(Len(sen_list)) :
          /\ trans' = pad_or_truncate(lines, Len(sen_list))
          /\ backend_lines' = Len(lines)
    /\ aPc' = "compute_mass_list"
    /\ UNCHANGED <<entries, plain_text, dialog_idx, sen_list, sen_idx,
                   mass_list, space, cn, cuts, jieba_run, dialog_list, result,
                   mode>>
    /\ UNCHANGED notAlign

\* mass_list = compute_mass_list(dialog_idx, sen_idx); an IndexError leaves
\* _translate_split
ComputeMassList ==
    /\ aPc = "compute_mass_list"
    /\ LET r == compute_mass_list(dialog_idx, sen_idx)
       IN IF r.err
          THEN /\ aPc' = "IndexError"
               /\ UNCHANGED mass_list
          ELSE /\ aPc' = "realign"
               /\ mass_list' = r.ml
    /\ UNCHANGED <<entries, plain_text, dialog_idx, sen_list, sen_idx, trans,
                   space, cn, cuts, jieba_run, dialog_list, result, mode,
                   backend_lines>>
    /\ UNCHANGED notAlign

\* advanced_translate_subtitles(subtitles, dialog_list, both)
advanced_translate_subtitles(subs, dialogs, both) ==
    IF Len(subs) # Len(dialogs) THEN [err |-> TRUE, subs |-> <<>>]
    ELSE [err |-> FALSE,
          subs |-> [k \in 1..Len(subs) |->
                      IF both THEN dialogs[k] \o <<"\n">> \o subs[k]
                      ELSE dialogs[k]]]

\* result = advanced_translate_subtitles(subtitles, dialog_list, both)
ApplyDialogs ==
    /\ aPc = "realigned"
    /\ \E both \in BOOLEAN :
          LET r == advanced_translate_subtitles(entries, dialog_list, both)
          IN IF r.err
             THEN aPc' = "SubtitleError" /\ UNCHANGED result
             ELSE aPc' = "done" /\ result' = r.subs
    /\ UNCHANGED <<entries, plain_text, dialog_idx, sen_list, sen_idx,
                   mass_list, trans, space, cn, cuts, jieba_run, dialog_list,
                   mode, backend_lines>>
    /\ UNCHANGED notAlign

\* translated_list of _translate_naive: the translated text split on line
\* breaks, then padded or truncated to len(subtitles)
TranslateNaive ==
    /\ aPc = "translate_naive"
    /\ \E lines \in BackendLines(Len(entries)) :
          /\ trans' = pad_or_truncate(lines, Len(entries))
          /\ backend_lines' = Len(lines)
    /\ aPc' = "apply_naive"
    /\ UNCHANGED <<entries, plain_text, dialog_idx, sen_list, sen_idx,
                   mass_list, space, cn, cuts, jieba_run, dialog_list, result,
                   mode>>
    /\ UNCHANGED notAlign

\* simple_translate_subtitles(subtitles, translated_texts, both)
simple_translate_subtitles(subs, texts, both) ==
    IF Len(subs) # Len(texts) THEN [err |-> TRUE, subs |-> <<>>]
    ELSE [err |-> FALSE,
          subs |-> [k \in 1..Len(subs) |->
                      IF both THEN texts[k] \o <<"\n">> \o subs[k]
                      ELSE texts[k]]]

\* result = simple_translate_subtitles(subtitles, translated_list, both)
ApplyTexts ==
    /\ aPc = "apply_naive"
    /\ \E both \in BOOLEAN :
          LET r == simple_translate_subtitles(entries, trans, both)
          IN IF r.err
             THEN aPc' = "SubtitleError" /\ UNCHANGED result
             ELSE aPc' = "done" /\ result' = r.subs
    /\ UNCHANGED <<entries, plain_text, dialog_idx, sen_list, sen_idx,
                   mass_list, trans, space, cn, cuts, jieba_run, dialog_list,
                   mode, backend_lines>>
    /\ UNCHANGED notAlign

NextAlign ==
    \/ TripleR
    \/ SplitAndRecord
    \/ TranslateSentences
    \/ ComputeMassList
    \/ Realign
    \/ ApplyDialogs
    \/ TranslateNaive
    \/ ApplyTexts

SpecAlign == InitAlign /\ [][NextAlign]_vars

----------------------------------------------------------------------------
\* Properties of SpecAlign

\* C2: in split mode the realignment drops, adds and duplicates nothing:
\* the concatenation of all output dialogue strings, in dialogue order,
\* equals the concatenation of all translated sentences, in sentence order.
C2_RealignmentLosesNothing ==
    aPc = "realigned" => Concat(dialog_list) = Concat(trans)

\* C5: in split mode, for the entries "Hello world." and "This is a test."
\* the splitter yields these two sentences, the mass list maps sentence i to
\* dialogue i only, and output entry i carries the full translation of
\* sentence i.
C5_HelloWorldExample ==
    (mode = "split" /\ entries = <<HelloWorld, ThisIsATest>>) =>
        /\ aPc \notin {"triple_r", "split_and_record"}
              => sen_list = <<HelloWorld, ThisIsATest>>
        /\ aPc \in {"realign", "realigned", "done"}
              => /\ Len(mass_list) = 2
                 /\ \A k \in 1..2 :
                       Len(mass_list[k]) = 1 /\ mass_list[k][1][1] = k
        /\ aPc \in {"realigned", "done"}
              => /\ Len(dialog_list) = 2
                 /\ \A k \in 1..2 : dialog_list[k] = trans[k]

\* whether the split pipeline fails for these entries, whatever the
\* translation: compute_mass_list raises, or the dialogue list has another
\* length than the entry list
split_fails(subs) ==
    LET t == triple_r(subs)
        sr == split_and_record(t.text)
        m == compute_mass_list(t.idx, sr.idx)
        last == m.ml[Len(m.ml)]
        dialog_num == IF sr.sens = <<>> \/ m.ml = <<>> THEN 0
                      ELSE IF last = <<>> THEN 0
                      ELSE last[Len(last)][1]
    IN m.err \/ dialog_num # Len(subs)

\* C24: whatever number of lines the backend's text has, the list that is
\* applied has the length of the source list (entries in naive mode,
\* sentences in split mode); naive mode never fails on it; in split mode
\* whether the pipeline fails is decided by the entries alone, not by the
\* number of lines; and a result has one entry per source entry.
C24_LineCountMismatchRecovered ==
    /\ backend_lines >= 0
          => Len(trans) = IF mode = "naive" THEN Len(entries)
                          ELSE Len(sen_list)
    /\ mode = "naive" => aPc \notin {"SubtitleError", "IndexError"}
    /\ aPc = "done" => Len(result) = Len(entries)
    /\ (mode = "split" /\ aPc \in {"SubtitleError", "IndexError"})
          => split_fails(entries)
    /\ (mode = "split" /\ aPc = "done") => ~split_fails(entries)

\* a split run whose backend text had fewer lines than there are sentences
\* has produced its result
C24_Witness ==
    /\ mode = "split"
    /\ aPc = "done"
    /\ Len(sen_list) = 2
    /\ backend_lines = 1
    /\ Len(trans) = 2
    /\ Len(result) = 2

\* the sentences of the run have their buckets: the mass list was computed
MassListComputed ==
    mode = "split" /\ aPc \in {"realign", "realigned", "done", "SubtitleError"}

\* C30: for the indices triple_r and split_and_record make of an entry
\* list, compute_mass_list returns, and it returns exactly one non-empty
\* bucket per sentence: the mass list is as long as the sentence list.
C30_OneBucketPerSentence ==
    /\ aPc # "IndexError"
    /\ MassListComputed
          => /\ Len(mass_list) = Len(sen_list)
             /\ \A k \in 1..Len(mass_list) : mass_list[k] # <<>>

\* C31: for a non-empty entry list, also one with empty entries or with
\* trailing whitespace that triple_r trims from the flattened text but not
\* from the dialogue index, compute_mass_list never reads past the end of
\* the sentence index: _translate_split raises no IndexError.
C31_NoIndexErrorInSplit ==
    (mode = "split" /\ entries # <<>>) => aPc # "IndexError"

\* split_and_record has returned
SentencesRecorded ==
    mode = "split" /\ aPc \notin {"idle", "triple_r", "split_and_record"}

\* C32: the sentence index holds cumulative end offsets into the flattened
\* text: the characters of plain_text at the 0-based positions
\* sen_idx[j-1] .. sen_idx[j] - 2 are the j-th sentence of the splitter.
C32_SentenceIndexMeasuresText ==
    SentencesRecorded
       => /\ Len(sen_idx) = Len(sen_list) + 1
          /\ sen_idx[1] = 0
          /\ \A j \in 1..Len(sen_list) :
                /\ sen_idx[j + 1] - 1 <= Len(plain_text)
                /\ SubSeq(plain_text, sen_idx[j] + 1, sen_idx[j + 1] - 1)
                      = sen_list[j]

\* ---------------------------------------------------------------------
\* Specification SpecMass: compute_mass_list called on a pair of index
\* lists, any strictly increasing dialogue index and any sentence index
\* that starts with 0, is strictly increasing and ends at or after the
\* last dialogue index
\* ---------------------------------------------------------------------

\* largest index value of the model
MaxIdx == 4

\* the elements of a set of numbers in increasing order
Ascending(S) ==
    CHOOSE f \in [1..Cardinality(S) -> S] :
        \A a, b \in 1..Cardinality(S) : a < b => f[a] < f[b]

\* the strictly increasing lists over 1..n
IncreasingLists(n) == {Ascending(S) : S \in SUBSET (1..n)}

\* the last element of a list, 0 for the empty list
LastOr0(s) == IF s = <<>> THEN 0 ELSE s[Len(s)]

\* the valid (DialogueIndex, SentenceIndex) pairs
ValidIndexPairs ==
    {p \in IncreasingLists(MaxIdx) \X
           {<<0>> \o t : t \in IncreasingLists(MaxIdx)} :
        LastOr0(p[2]) >= LastOr0(p[1])}

InitMass ==
    /\ aPc = "compute_mass_list"
    /\ \E p \in ValidIndexPairs : dialog_idx = p[1] /\ sen_idx = p[2]
    /\ entries = <<>>
    /\ plain_text = <<>>
    /\ sen_list = <<>>
    /\ mass_list = <<>>
    /\ trans = <<>>
    /\ space = FALSE
    /\ cn = FALSE
    /\ cuts = <<>>
    /\ jieba_run = [avail |-> FALSE, calls |-> <<>>]
    /\ dialog_list = <<>>
    /\ result = <<>>
    /\ mode = "split"
    /\ backend_lines = -1
    /\ ClientIdle
    /\ FileIdle
    /\ BatchIdle
    /\ SerialIdle
    /\ DecodeIdle
    /\ PostIdle

NextMass == ComputeMassList

SpecMass == InitMass /\ [][NextMass]_vars

\* the width of the window of sentence j
WindowOf(j) == sen_idx[j + 1] - sen_idx[j]

\* C29: for every valid pair of index lists compute_mass_list returns a
\* mass list that covers each sentence window exactly: every sentence j has
\* its bucket, the offsets of the bucket are strictly increasing cut points
\* inside the window, and the last offset is the width of the window.
C29_MassListCoversWindows ==
    /\ aPc # "IndexError"
    /\ aPc = "realign"
          => \A j \in 1..(Len(sen_idx) - 1) :
                /\ j <= Len(mass_list)
                /\ mass_list[j] # <<>>
                /\ \A k \in 1..Len(mass_list[j]) :
                      /\ mass_list[j][k][2] > 0
                      /\ mass_list[j][k][2] <= WindowOf(j)
                      /\ k > 1 => mass_list[j][k - 1][2] < mass_list[j][k][2]
                /\ mass_list[j][Len(mass_list[j])][2] = WindowOf(j)

\* C39: for every valid pair of index lists compute_mass_list returns,
\* the dialogue numbers 1..n appear once each and in ascending order across
\* the flattened mass list, and every cut offset o of the bucket of
\* sentence j satisfies 0 < o <= sen_idx[j] - sen_idx[j-1].
C39_EveryDialogueOnceOffsetsInWindow ==
    /\ aPc # "IndexError"
    /\ aPc = "realign"
          => /\ Len(Concat(mass_list)) = Len(dialog_idx)
             /\ \A k \in 1..Len(Concat(mass_list)) :
                   Concat(mass_list)[k][1] = k
             /\ Len(mass_list) <= Len(sen_idx) - 1
             /\ \A j \in 1..Len(mass_list) :
                   \A k \in 1..Len(mass_list[j]) :
                      /\ mass_list[j][k][2] > 0
                      /\ mass_list[j][k][2] <= WindowOf(j)

\* three dialogues over two sentences: the first ends in the first
\* sentence, the other two in the second
C39_Witness ==
    /\ aPc = "realign"
    /\ Len(dialog_idx) = 3
    /\ Len(sen_idx) = 3
    /\ Len(mass_list) = 2
    /\ Len(mass_list[1]) = 1
    /\ Len(mass_list[2]) = 2

\* ---------------------------------------------------------------------
\* Specification SpecSplit: Splitter.split, through triple_r and
\* split_and_record, on a text made of sentences that end in '.', '?' or
\* '!' and are separated by single spaces: each entry is one sentence
\* ---------------------------------------------------------------------

\* most sentences of a text
MaxSentences == 3

\* sentences with terminal punctuation, none of them an abbreviation
Sentences ==
    {<<"a", "b", ".">>, <<"a", "b", "?">>, <<"a", "b", "!">>,
     <<"a", " ", "a", "b", "?">>, HelloWorld}

InitSplit ==
    /\ aPc = "triple_r"
    /\ entries \in SeqsUpTo(Sentences, MaxSentences)
    /\ plain_text = <<>>
    /\ dialog_idx = <<>>
    /\ sen_list = <<>>
    /\ sen_idx = <<>>
    /\ mass_list = <<>>
    /\ trans = <<>>
    /\ space = FALSE
    /\ cn = FALSE
    /\ cuts = <<>>
    /\ jieba_run = [avail |-> FALSE, calls |-> <<>>]
    /\ dialog_list = <<>>
    /\ result = <<>>
    /\ mode = "split"
    /\ backend_lines = -1
    /\ ClientIdle
    /\ FileIdle
    /\ BatchIdle
    /\ SerialIdle
    /\ DecodeIdle
    /\ PostIdle

NextSplit ==
    \/ TripleR
    \/ SplitAndRecord

SpecSplit == InitSplit /\ [][NextSplit]_vars

RECURSIVE JoinWithSpaces(_)
\* " ".join(ss)
JoinWithSpaces(ss) ==
    IF ss = <<>> THEN <<>>
    ELSE IF Len(ss) = 1 THEN ss[1]
    ELSE ss[1] \o <<" ">> \o JoinWithSpaces(Tail(ss))

\* C33: for a text of sentences that each end in '.', '?' or '!' and are
\* separated by single spaces, Splitter.split returns exactly those
\* sentences in order, with their punctuation and without leading
\* whitespace, and joining them with single spaces gives the text back.
C33_SplitReturnsTheSentences ==
    aPc = "translate"
       => /\ plain_text = JoinWithSpaces(entries)
          /\ sen_list = entries
          /\ JoinWithSpaces(sen_list) = plain_text

----------------------------------------------------------------------------
\* Specification Spec: SubtitleTranslator.translate_file and its checkpoint
\* file, over several calls for the same output path, any of which may be
\* interrupted
\*
\* The checkpoint file holds "absent" (no file), "corrupt" (unreadable or
\* not JSON) or the status of the checkpoint last written.  Of the
\* checkpoints the program writes, only parsing_complete carries
\* parsed_subtitles and only translating carries partial_translation.

Statuses == {"parsing_complete", "translating", "translation_complete",
             "complete"}

\* the entries of log
ParseCall == <<"parse_file", "-">>
PipelineCall == <<"_translate_with_progress", "-">>
OutputWrite == <<"save_file", "-">>
CheckpointWrite(status) == <<"_save_checkpoint", status>>
CheckpointWrites == {CheckpointWrite(st) : st \in Statuses}

Count(events, e) == Cardinality({k \in 1..Len(events) : events[k] = e})
CountIn(events, E) == Cardinality({k \in 1..Len(events) : events[k] \in E})

\* self.translator is a Translator.  get_translator returns a
\* GoogleTranslator; the orchestrator is written against the abstract class,
\* whose translate_lines may raise any TranslationError, RateLimitError
\* included.
Translators == {"GoogleTranslator", "Translator"}

\* The outcomes of translate_lines as its caller sees them: it returns the
\* text or raises; GoogleTranslator.translate_lines raises what
\* translate_lines_raises leaves through
TranslateLinesOutcomes(tr) ==
    IF tr = "GoogleTranslator"
    THEN {"ok"} \cup {translate_lines_raises(e) :
                         e \in {"TranslationError", "RateLimitError"}}
    ELSE {"ok", "TranslationError", "RateLimitError"}

\* time.sleep(t)
Sleep(t) == <<"sleep", t>>

\* the orchestrator's backoff that is 60 s before every retry
backoff_time_fixed(rc) == 60

\* the orchestrator's backoff before the retry that follows the
\* RateLimitError of attempt rc (0-based): 60 s, 120 s
backoff_time(rc) == 60 * (rc + 1)

\* the checkpoint check of translate_file that does not return for a
\* checkpoint of status complete
load_checkpoint_without_return(res, file) ==
    IF res /\ file # "absent"
    THEN IF file = "undecodable"
         THEN [returns |-> FALSE, data |-> "none",
               raises |-> "UnicodeDecodeError"]
         ELSE IF file = "corrupt"
         THEN [returns |-> FALSE, data |-> "none", raises |-> "none"]
         ELSE [returns |-> FALSE, data |-> file, raises |-> "none"]
    ELSE [returns |-> FALSE, data |-> "none", raises |-> "none"]

\* the checkpoint check of translate_file: whether the call returns at once,
\* the checkpoint_data it goes on with, and the exception that leaves it.
\* A file that is not valid JSON ("corrupt") raises JSONDecodeError, which
\* is caught; a file whose bytes are not valid UTF-8 ("undecodable", as
\* when a write stopped inside a multi-byte character) raises
\* UnicodeDecodeError, which the except clause does not name.
load_checkpoint(res, file) ==
    IF res /\ file # "absent"
    THEN IF file = "undecodable"
         THEN [returns |-> FALSE, data |-> "none",
               raises |-> "UnicodeDecodeError"]
         ELSE IF file = "corrupt"
         THEN [returns |-> FALSE, data |-> "none", raises |-> "none"]
         ELSE IF file = "complete"
         THEN [returns |-> TRUE, data |-> file, raises |-> "none"]
         ELSE [returns |-> FALSE, data |-> file, raises |-> "none"]
    ELSE [returns |-> FALSE, data |-> "none", raises |-> "none"]

\* a pipeline that is never given the checkpoint file
pipeline_checkpoint_never(res) == FALSE

\* checkpoint_file=checkpoint_file if resume else None: the pipeline of the
\* mode is given the checkpoint file
pipeline_checkpoint(res) == res

\* the batches of the partial_translation on disk once the checkpoint file
\* holds file_after: only the translating checkpoint carries one
kept_partial(file_after, partial) ==
    IF file_after = "translating" THEN partial ELSE 0

\* _save_checkpoint: the file afterwards; a failure to open it for writing
\* is logged and leaves it as it was
save_checkpoint(file, status, ok) == IF ok THEN status ELSE file

\* a check that finds no serialized entries in any checkpoint
has_parsed_subtitles_never(data) == FALSE

\* "parsed_subtitles" in checkpoint_data
has_parsed_subtitles(data) == data = "parsing_complete"

\* a check that finds no partial translation in any checkpoint
has_partial_translation_never(data) == FALSE

\* "partial_translation" in checkpoint_data
has_partial_translation(data) == data = "translating"

Running == {"load", "parse", "translate", "translating", "save", "mark"}

\* translate_file is called
Call ==
    /\ fPc \notin Running
    /\ runs < MaxRuns
    /\ runs' = runs + 1
    /\ resume' \in BOOLEAN
    /\ fPc' = "load"
    /\ checkpoint_at_call' = checkpoint_file
    /\ checkpoint_data' = "none"
    /\ subtitles' = "none"
    /\ translated_subtitles' = "none"
    /\ tf_retry_count' = 0
    /\ log' = <<>>
    /\ error' = "none"
    /\ UNCHANGED <<checkpoint_file, output_file, translator>>
    /\ done_batches' = 0
    /\ loaded_partial' = 0
    /\ interrupted_done' = IF fPc = "interrupted" THEN interrupted_done ELSE -1
    /\ UNCHANGED <<partial_translation, output_batches>>
    /\ UNCHANGED notFile

\* the checkpoint is looked for and loaded
LoadCheckpoint ==
    /\ fPc = "load"
    /\ LET r == load_checkpoint(resume, checkpoint_file)
       IN /\ checkpoint_data' = r.data
          /\ error' = r.raises
          /\ fPc' = IF r.raises # "none" THEN "raised"
                    ELSE IF r.returns THEN "returned" ELSE "parse"
    /\ UNCHANGED <<resume, checkpoint_file, checkpoint_at_call, subtitles,
                   translated_subtitles, tf_retry_count, log, output_file,
                   runs, translator>>
    /\ loaded_partial' = IF has_partial_translation(checkpoint_data')
                         THEN partial_translation ELSE 0
    /\ UNCHANGED <<done_batches, partial_translation, output_batches,
                   interrupted_done>>
    /\ UNCHANGED notFile

\* the entries are rebuilt from the checkpoint, or the source file is parsed
\* and the first checkpoint written
ParseOrRestore ==
    /\ fPc = "parse"
    /\ IF has_parsed_subtitles(checkpoint_data)
       THEN /\ subtitles' = "restored"
            /\ fPc' = "translate"
            /\ UNCHANGED <<checkpoint_file, log, error>>
       ELSE \E parsed \in BOOLEAN, ok \in BOOLEAN :
              IF ~parsed
              THEN /\ fPc' = "raised"
                   /\ error' = "SubtitleError"
                   /\ log' = Append(log, ParseCall)
                   /\ UNCHANGED <<checkpoint_file, subtitles>>
              ELSE /\ subtitles' = "parsed"
                   /\ fPc' = "translate"
                   /\ error' = error
                   /\ IF resume
                      THEN /\ checkpoint_file' =
                                save_checkpoint(checkpoint_file,
                                                "parsing_complete", ok)
                           /\ log' = log \o <<ParseCall,
                                  CheckpointWrite("parsing_complete")>>
                      ELSE /\ log' = Append(log, ParseCall)
                           /\ UNCHANGED checkpoint_file
    /\ UNCHANGED <<resume, checkpoint_at_call, checkpoint_data,
                   translated_subtitles, tf_retry_count, output_file, runs, translator>>
    /\ partial_translation' = kept_partial(checkpoint_file', partial_translation)
    /\ UNCHANGED <<done_batches, loaded_partial, output_batches,
                   interrupted_done>>
    /\ UNCHANGED notFile

\* the partial translation of the checkpoint is taken, or the pipeline of
\* the mode is entered and calls _translate_with_progress
BeginTranslate ==
    /\ fPc = "translate"
    /\ IF has_partial_translation(checkpoint_data)
       THEN /\ translated_subtitles' = "blob"
            /\ fPc' = "save"
            /\ UNCHANGED log
       ELSE /\ fPc' = "translating"
            /\ log' = Append(log, PipelineCall)
            /\ UNCHANGED translated_subtitles
    /\ UNCHANGED <<resume, checkpoint_file, checkpoint_at_call,
                   checkpoint_data, subtitles, tf_retry_count, output_file,
                   error, runs, translator>>
    /\ UNCHANGED <<done_batches, partial_translation, loaded_partial,
                   output_batches, interrupted_done>>
    /\ UNCHANGED notFile

\* translate_lines has translated one more batch and appended it to the
\* translated text
BatchDone ==
    /\ fPc = "translating"
    /\ done_batches < MaxBatches
    /\ done_batches' = done_batches + 1
    /\ UNCHANGED <<fPc, resume, checkpoint_file, checkpoint_at_call,
                   checkpoint_data, subtitles, translated_subtitles,
                   tf_retry_count, log, output_file, error, runs, translator,
                   partial_translation, loaded_partial, output_batches,
                   interrupted_done>>
    /\ UNCHANGED notFile

\* progress_callback, called by translate_lines after a batch when the
\* progress interval has passed: the translating checkpoint is written
ProgressCheckpoint ==
    /\ fPc = "translating"
    /\ resume
    /\ done_batches >= 1
    /\ Count(log, CheckpointWrite("translating")) < MaxProgress
    /\ \E ok \in BOOLEAN :
          /\ checkpoint_file' =
                save_checkpoint(checkpoint_file, "translating", ok)
          /\ partial_translation' =
                IF ok THEN done_batches
                ELSE kept_partial(checkpoint_file, partial_translation)
    /\ log' = Append(log, CheckpointWrite("translating"))
    /\ UNCHANGED <<done_batches, loaded_partial, output_batches,
                   interrupted_done>>
    /\ UNCHANGED <<fPc, resume, checkpoint_at_call, checkpoint_data,
                   subtitles, translated_subtitles, tf_retry_count,
                   output_file, error, runs, translator>>
    /\ UNCHANGED notFile

\* _translate_with_progress ends and _translate_naive or _translate_split
\* goes on: on a RateLimitError of the first two attempts it sleeps and
\* calls again; on the text it pads or truncates, applies the translation
\* (which in split mode may raise) and writes the translation_complete
\* checkpoint
PipelineEnds ==
    /\ fPc = "translating"
    /\ \E out \in TranslateLinesOutcomes(translator),
          applied \in {"ok", "SubtitleError", "IndexError"},
          ok \in BOOLEAN :
          CASE out = "RateLimitError" ->
                 IF tf_retry_count < 2
                 THEN /\ tf_retry_count' = tf_retry_count + 1
                      /\ log' = log \o <<Sleep(backoff_time(tf_retry_count)),
                                          PipelineCall>>
                      /\ UNCHANGED <<fPc, error, translated_subtitles,
                                     checkpoint_file>>
                 ELSE /\ fPc' = "raised"
                      /\ error' = "RateLimitError"
                      /\ UNCHANGED <<tf_retry_count, log,
                                     translated_subtitles, checkpoint_file>>
            [] out = "TranslationError" ->
                 /\ fPc' = "raised"
                 /\ error' = "TranslationError"
                 /\ UNCHANGED <<tf_retry_count, log, translated_subtitles,
                                checkpoint_file>>
            [] OTHER ->
                 IF done_batches < MaxBatches
                 THEN FALSE
                 ELSE IF applied # "ok"
                 THEN /\ fPc' = "raised"
                      /\ error' = applied
                      /\ UNCHANGED <<tf_retry_count, log,
                                     translated_subtitles, checkpoint_file>>
                 ELSE /\ translated_subtitles' = "entries"
                      /\ fPc' = "save"
                      /\ UNCHANGED <<tf_retry_count, error>>
                      /\ IF pipeline_checkpoint(resume)
                         THEN /\ checkpoint_file' =
                                   save_checkpoint(checkpoint_file,
                                       "translation_complete", ok)
                              /\ log' = Append(log,
                                   CheckpointWrite("translation_complete"))
                         ELSE UNCHANGED <<checkpoint_file, log>>
    /\ UNCHANGED <<resume, checkpoint_at_call, checkpoint_data, subtitles,
                   output_file, runs, translator>>
    /\ partial_translation' = kept_partial(checkpoint_file', partial_translation)
    /\ done_batches' = IF fPc' = "translating" THEN 0 ELSE done_batches
    /\ UNCHANGED <<loaded_partial, output_batches, interrupted_done>>
    /\ UNCHANGED notFile

\* save_file writes the output file, or raises SubtitleError
SaveOutput ==
    /\ fPc = "save"
    /\ \E ok \in BOOLEAN :
          IF ok
          THEN /\ output_file' = translated_subtitles
               /\ log' = Append(log, OutputWrite)
               /\ fPc' = "mark"
               /\ UNCHANGED error
          ELSE /\ fPc' = "raised"
               /\ error' = "SubtitleError"
               /\ UNCHANGED <<output_file, log>>
    /\ UNCHANGED <<resume, checkpoint_file, checkpoint_at_call,
                   checkpoint_data, subtitles, translated_subtitles,
                   tf_retry_count, runs, translator>>
    /\ output_batches' = IF output_file' = output_file /\ fPc' = "raised"
                         THEN output_batches
                         ELSE IF translated_subtitles = "entries"
                              THEN MaxBatches ELSE loaded_partial
    /\ UNCHANGED <<done_batches, partial_translation, loaded_partial,
                   interrupted_done>>
    /\ UNCHANGED notFile

\* the checkpoint is marked complete when it exists, and the call returns
MarkComplete ==
    /\ fPc = "mark"
    /\ IF resume /\ checkpoint_file # "absent"
       THEN /\ \E ok \in BOOLEAN :
                 checkpoint_file' =
                     save_checkpoint(checkpoint_file, "complete", ok)
            /\ log' = Append(log, CheckpointWrite("complete"))
       ELSE UNCHANGED <<checkpoint_file, log>>
    /\ fPc' = "returned"
    /\ UNCHANGED <<resume, checkpoint_at_call, checkpoint_data, subtitles,
                   translated_subtitles, tf_retry_count, output_file, error,
                   runs, translator>>
    /\ partial_translation' = kept_partial(checkpoint_file', partial_translation)
    /\ UNCHANGED <<done_batches, loaded_partial, output_batches,
                   interrupted_done>>
    /\ UNCHANGED notFile

\* the step at fPc writes the checkpoint file
writes_checkpoint ==
    /\ resume
    /\ \/ fPc = "parse" /\ ~has_parsed_subtitles(checkpoint_data)
       \/ fPc = "translating"
       \/ fPc = "mark" /\ checkpoint_file # "absent"

\* The process is interrupted.  _save_checkpoint opens the file for writing
\* in place, so an interruption during a write leaves a truncated file,
\* which may end inside a multi-byte character (ensure_ascii=False).
Interrupt ==
    /\ fPc \in Running
    /\ fPc' = "interrupted"
    /\ \E torn \in {"no", "corrupt", "undecodable"} :
          /\ torn # "no" => writes_checkpoint
          /\ checkpoint_file' = IF torn # "no" THEN torn ELSE checkpoint_file
    /\ UNCHANGED <<resume, checkpoint_at_call, checkpoint_data, subtitles,
                   translated_subtitles, tf_retry_count, log, output_file,
                   error, runs, translator>>
    /\ partial_translation' = kept_partial(checkpoint_file', partial_translation)
    /\ interrupted_done' = done_batches
    /\ UNCHANGED <<done_batches, loaded_partial, output_batches>>
    /\ UNCHANGED notFile

Init ==
    /\ FileAtRest
    /\ translator \in Translators
    /\ AlignIdle
    /\ ClientIdle
    /\ BatchIdle
    /\ SerialIdle
    /\ DecodeIdle
    /\ PostIdle

Next ==
    \/ Call
    \/ LoadCheckpoint
    \/ ParseOrRestore
    \/ BeginTranslate
    \/ BatchDone
    \/ ProgressCheckpoint
    \/ PipelineEnds
    \/ SaveOutput
    \/ MarkComplete
    \/ Interrupt

Spec == Init /\ [][Next]_vars

----------------------------------------------------------------------------
\* Properties of Spec

\* C1: a call with resume enabled that finds a checkpoint of status complete
\* returns successfully having made zero parse calls, zero translation
\* calls, zero output writes and no checkpoint write.
C1_CompleteCheckpointNoWork ==
    (resume /\ checkpoint_at_call = "complete" /\ fPc # "idle")
        => /\ fPc \in {"load", "returned", "interrupted"}
           /\ error = "none"
           /\ Count(log, ParseCall) = 0
           /\ Count(log, PipelineCall) = 0
           /\ Count(log, OutputWrite) = 0
           /\ CountIn(log, CheckpointWrites) = 0
           /\ checkpoint_file = "complete"

\* a second call that found the complete checkpoint of the first and
\* returned
C1_Witness ==
    /\ fPc = "returned"
    /\ resume
    /\ checkpoint_at_call = "complete"
    /\ runs >= 2
    /\ log = <<>>

\* the sleeps of the run, in order
RECURSIVE SleepsOf(_)
SleepsOf(events) ==
    IF events = <<>> THEN <<>>
    ELSE IF Head(events)[1] = "sleep"
         THEN <<Head(events)[2]>> \o SleepsOf(Tail(events))
         ELSE SleepsOf(Tail(events))

\* C12: for one file _translate_with_progress is invoked at most 3 times:
\* the first RateLimitError is followed by a 60 s sleep and a retry, the
\* second by a 120 s sleep and a retry, the third is propagated without a
\* further sleep; any other error is propagated on its first occurrence.
C12_ThreePipelineAttempts ==
    LET calls == Count(log, PipelineCall)
        sleeps == SleepsOf(log)
    IN /\ calls <= 3
       /\ Len(sleeps) = tf_retry_count
       /\ \A k \in 1..Len(sleeps) : sleeps[k] = 60 * k
       /\ fPc = "translating" => calls = tf_retry_count + 1
       /\ \A k \in 1..Len(log) :
             log[k][1] = "sleep" => (k < Len(log) /\ log[k + 1] = PipelineCall)
       /\ error = "RateLimitError"
             => (fPc = "raised" /\ calls = 3 /\ sleeps = <<60, 120>>)
       /\ error = "TranslationError"
             => (fPc = "raised" /\ calls = tf_retry_count + 1)

\* the third attempt of a run was rate-limited too
C12_Witness ==
    /\ fPc = "raised"
    /\ error = "RateLimitError"
    /\ Count(log, PipelineCall) = 3
    /\ SleepsOf(log) = <<60, 120>>

\* C13: a run that resumes from a checkpoint carrying a partial translation
\* makes zero translation calls: the blob is taken as the complete
\* translation and the run proceeds to writing the output.
C13_PartialTranslationNoCalls ==
    (fPc # "idle" /\ checkpoint_data = "translating")
        => /\ Count(log, PipelineCall) = 0
           /\ fPc # "translating"
           /\ fPc \in {"save", "mark", "returned"}
                 => translated_subtitles = "blob"
           /\ Count(log, OutputWrite) = 1 => output_file = "blob"

\* a resumed run that wrote the blob of the checkpoint and returned
C13_Witness ==
    /\ fPc = "returned"
    /\ resume
    /\ checkpoint_at_call = "translating"
    /\ checkpoint_data = "translating"
    /\ Count(log, OutputWrite) = 1
    /\ output_file = "blob"

\* the run has gone through the parse step of translate_file
PastParse ==
    \/ fPc \in {"translate", "translating", "save", "mark"}
    \/ fPc = "raised" /\ error # "UnicodeDecodeError"
    \/ fPc = "returned" /\ checkpoint_data # "complete"

IsFinalWrite(e) ==
    e \in {CheckpointWrite("translation_complete"), OutputWrite,
           CheckpointWrite("complete")}

FinalWrites == SelectSeq(log, IsFinalWrite)

C16_InterruptionLosesOneBatch ==
    (fPc = "returned" /\ resume /\ interrupted_done >= 0)
        => /\ loaded_partial >= interrupted_done
           /\ output_batches = MaxBatches

\* ---------------------------------------------------------------------
\* batch_translate_directory (main.py 515-663): one call walks the matched
\* files in order; translate_file is one step of it, given by what happens
\* while the file is translated.
\* ---------------------------------------------------------------------

\* the pause after a rate-limited file, in seconds
batch_pause == 120

\* what can happen while translate_file works on one file
Causes == {"fine", "parse_error", "backend_429", "backend_error",
           "uneven_split"}

\* the exception type that leaves translate_file, "none" when it returns
translate_file_raises(tr, cause) ==
    CASE cause = "fine" -> "none"
      [] cause = "parse_error" -> "SubtitleError"
      [] cause = "backend_429" ->
            IF tr = "GoogleTranslator"
            THEN translate_lines_raises(translate_raises("RateLimitError"))
            ELSE "RateLimitError"
      [] cause = "backend_error" ->
            IF tr = "GoogleTranslator"
            THEN translate_lines_raises(translate_raises("TranslationError"))
            ELSE "TranslationError"
      [] cause = "uneven_split" -> "IndexError"

\* a skip condition that passes over every file that has a record
skips_any_record(res, status) == res /\ status # "none"

\* the condition under which the loop skips a file
skips(res, status) == res /\ status = "success"

\* the except clauses of the loop body: the status recorded for an
\* exception type, "propagates" when no clause catches it
handler_status(err) ==
    CASE err = "RateLimitError" -> "rate_limited"
      [] err \in {"SubtitleError", "TranslationError", "OSError"} -> "error"
      [] OTHER -> "propagates"

\* a load that reads the BatchState file whether resume is set or not
load_batch_state_always(res, file, readable) ==
    IF file.exists /\ readable /\ ~file.torn
    THEN file.data ELSE NoEntries

\* the BatchState loaded at the start of a call; readable tells whether
\* opening the file succeeds; a torn file does not parse
load_batch_state(res, file, readable) ==
    IF res /\ file.exists /\ readable /\ ~file.torn
    THEN file.data ELSE NoEntries

\* a record that replaces the whole BatchState by the entry of one file
recorded_alone(state, f, status) == [NoEntries EXCEPT ![f] = status]

\* batch_state[input_path] = results[input_path]
recorded(state, f, status) == [state EXCEPT ![f] = status]

\* the BatchState file after open(batch_state_file, "w") and json.dump:
\* a write that fails leaves the file as it was or, when it fails after
\* the file was opened, truncated or partly written
write_batch_state(file, state, ok, tear) ==
    IF ok THEN [exists |-> TRUE, torn |-> FALSE, data |-> state]
    ELSE IF tear THEN [exists |-> TRUE, torn |-> TRUE, data |-> NoEntries]
    ELSE file

\* a new call of batch_translate_directory
BatchCall ==
    /\ bPc \in {"idle", "returned", "raised"}
    /\ b_runs < MaxBatchRuns
    /\ \E res \in BOOLEAN, readable \in BOOLEAN :
        /\ b_resume' = res
        /\ batch_state' = load_batch_state(res, batch_state_file, readable)
        /\ loaded_state' = load_batch_state(res, batch_state_file, readable)
    /\ results' = NoEntries
    /\ causes' = NoEntries
    /\ b_i' = 1
    /\ attempts' = <<>>
    /\ b_sleeps' = <<>>
    /\ b_error' = "none"
    /\ b_runs' = b_runs + 1
    /\ bPc' = "loop"
    /\ UNCHANGED batch_state_file
    /\ UNCHANGED notBatch

\* where the loop stands after the file at index f
after_file(f) == IF f = MaxFiles THEN "returned" ELSE "loop"

\* a loop iteration for a file recorded as success
SkipCompleted ==
    /\ bPc = "loop"
    /\ skips(b_resume, batch_state[b_i])
    /\ results' = [results EXCEPT ![b_i] = batch_state[b_i]]
    /\ b_i' = b_i + 1
    /\ bPc' = after_file(b_i)
    /\ UNCHANGED <<b_resume, batch_state_file, loaded_state, batch_state,
                   attempts, causes, b_sleeps, b_error, b_runs>>
    /\ UNCHANGED notBatch

\* a loop iteration that calls translate_file; w1 and w2 tell whether the
\* write of the BatchState file in the try body and the one in the except
\* clause succeed, tear whether a failing write damages the file
Attempt ==
    /\ bPc = "loop"
    /\ ~skips(b_resume, batch_state[b_i])
    /\ \E cause \in Causes, w1 \in BOOLEAN, w2 \in BOOLEAN, tear \in BOOLEAN :
        LET f == b_i
            err == translate_file_raises(translator, cause)
            try_err == IF err = "none"
                       THEN (IF b_resume /\ ~w1 THEN "OSError" ELSE "none")
                       ELSE err
            status == IF try_err = "none" THEN "success"
                      ELSE handler_status(try_err)
            caught == status \in {"rate_limited", "error"}
            state1 == IF err = "none" /\ b_resume
                      THEN recorded(batch_state, f, "success")
                      ELSE batch_state
            state2 == IF caught /\ b_resume
                      THEN recorded(state1, f, status)
                      ELSE state1
            file1 == IF err = "none" /\ b_resume
                     THEN write_batch_state(batch_state_file, state1, w1, tear)
                     ELSE batch_state_file
            file2 == IF caught /\ b_resume
                     THEN write_batch_state(file1, state2, w2, tear)
                     ELSE file1
            escapes == IF status = "propagates" THEN try_err
                       ELSE IF caught /\ b_resume /\ ~w2 THEN "OSError"
                       ELSE "none"
        IN  /\ attempts' = Append(attempts, f)
            /\ causes' = [causes EXCEPT ![f] = cause]
            /\ results' = IF status = "propagates" THEN results
                          ELSE [results EXCEPT ![f] = status]
            /\ batch_state' = state2
            /\ batch_state_file' = file2
            /\ b_sleeps' = IF status = "rate_limited"
                           THEN Append(b_sleeps, <<f, batch_pause>>)
                           ELSE b_sleeps
            /\ b_error' = escapes
            /\ IF escapes = "none"
               THEN /\ b_i' = f + 1
                    /\ bPc' = after_file(f)
               ELSE /\ b_i' = f
                    /\ bPc' = "raised"
    /\ UNCHANGED <<b_resume, loaded_state, b_runs>>
    /\ UNCHANGED notBatch

InitBatch ==
    /\ BatchIdle
    /\ SerialIdle
    /\ DecodeIdle
    /\ PostIdle
    /\ FileAtRest
    /\ translator \in Translators
    /\ AlignIdle
    /\ ClientIdle

NextBatch ==
    \/ BatchCall
    \/ SkipCompleted
    \/ Attempt

SpecBatch == InitBatch /\ [][NextBatch]_vars

\* ---------------------------------------------------------------------
\* Properties of SpecBatch
\* ---------------------------------------------------------------------

\* the files translate_file was invoked for in this call
Attempted == {attempts[k] : k \in 1..Len(attempts)}

\* the files whose entry in a BatchState is absent or not success
NotSuccess(state) == {f \in Files : state[f] # "success"}

\* C17: with resume enabled, translate_file is invoked only for files whose
\* entry in the loaded BatchState is absent or not success, each at most
\* once and in directory order; a file recorded as success is reported with
\* its stored record; when the call returns, every file that was not
\* recorded as success has been invoked.  Hence a call that loads "success"
\* for every file but file 2 and "rate_limited" for file 2 attempts only
\* file 2.
C17_SkipsExactlySuccessFiles ==
    b_resume =>
        /\ \A k \in 1..Len(attempts) : loaded_state[attempts[k]] # "success"
        /\ \A j, k \in 1..Len(attempts) : j < k => attempts[j] < attempts[k]
        /\ \A f \in Files :
              (loaded_state[f] = "success" /\ f < b_i)
                  => results[f] = loaded_state[f]
        /\ bPc = "returned" => Attempted = NotSuccess(loaded_state)
        /\ ( /\ bPc = "returned"
             /\ loaded_state[2] = "rate_limited"
             /\ \A f \in Files \ {2} : loaded_state[f] = "success" )
               => attempts = <<2>>

\* a second call with resume has returned after loading files 1 and 3 as
\* success and file 2 as rate_limited, and has attempted only file 2
C17_Witness ==
    /\ bPc = "returned"
    /\ b_resume
    /\ b_runs = 2
    /\ loaded_state[1] = "success"
    /\ loaded_state[2] = "rate_limited"
    /\ loaded_state[3] = "success"
    /\ attempts = <<2>>
    /\ results[1] = "success"
    /\ results[3] = "success"

\* the files of this call for which translate_file raised RateLimitError
RateLimitedFiles ==
    {f \in Attempted :
        translate_file_raises(translator, causes[f]) = "RateLimitError"}

\* the number of pauses of the batch call for file f
PausesFor(f) ==
    Cardinality({k \in 1..Len(b_sleeps) : b_sleeps[k] = <<f, batch_pause>>})

\* C18: when translate_file raises RateLimitError for a file of the batch,
\* the file is reported as rate_limited, the batch sleeps 120 seconds
\* exactly once for it, the call does not raise, and when it ends every
\* remaining file has been attempted or skipped as already successful.
C18_RateLimitedFileDoesNotStopBatch ==
    \A f \in RateLimitedFiles :
        /\ results[f] = "rate_limited"
        /\ PausesFor(f) = 1
        /\ bPc # "raised"
        /\ bPc # "loop" => \A g \in Files : g > f => results[g] # "none"

\* C19: with the real translation client (GoogleTranslator), a file during
\* whose translation the backend answers every request with HTTP 429 is
\* recorded with the batch outcome rate_limited, not error.
C19_BackendRateLimitRecordedRateLimited ==
    \A f \in Attempted :
        (translator = "GoogleTranslator" /\ causes[f] = "backend_429")
            => results[f] = "rate_limited"

\* the files of this call for which translate_file raised SubtitleError or
\* a TranslationError that is not a RateLimitError
FailedFiles ==
    {f \in Attempted :
        translate_file_raises(translator, causes[f])
            \in {"SubtitleError", "TranslationError"}}

\* C20: when translate_file fails for a file of the batch with SubtitleError
\* or a TranslationError other than RateLimitError, the file's outcome is
\* error, the call does not raise, and when it ends there is exactly one
\* result (success, error or rate_limited) for every matched file, so every
\* later file was still attempted.
C20_FailedFileDoesNotStopBatch ==
    \A f \in FailedFiles :
        /\ results[f] = "error"
        /\ bPc # "raised"
        /\ bPc # "loop" =>
              \A g \in Files :
                  results[g] \in {"success", "error", "rate_limited"}

\* C21: with resume enabled, whenever the call stands between two files or
\* has returned after at least one attempt, the BatchState file on disk is
\* whole, maps every file attempted in this call to its reported outcome,
\* and still holds the loaded entry of every file that was not attempted.
C21_BatchStateFileFollowsAttempts ==
    (b_resume /\ bPc \in {"loop", "returned"} /\ attempts # <<>>)
        => /\ batch_state_file.exists
           /\ ~batch_state_file.torn
           /\ \A f \in Attempted : batch_state_file.data[f] = results[f]
           /\ \A f \in Files \ Attempted :
                 batch_state_file.data[f] = loaded_state[f]

\* a second call with resume loaded file 1 as success, skipped it and has
\* attempted file 2; the file on disk holds both entries
C21_Witness ==
    /\ b_resume
    /\ b_runs = 2
    /\ bPc = "loop"
    /\ loaded_state[1] = "success"
    /\ loaded_state[2] = "error"
    /\ attempts = <<2>>
    /\ results[2] = "rate_limited"
    /\ batch_state_file.data[1] = "success"
    /\ batch_state_file.data[2] = "rate_limited"

\* C23: a failure to write the BatchState file never aborts the batch call
\* (the only OSError of the model is that of a failed BatchState write) and
\* never changes a file's reported outcome: a file whose translation
\* succeeded is reported as success.
C23_BatchStateWriteFailureHarmless ==
    /\ b_error # "OSError"
    /\ \A f \in Attempted : causes[f] = "fine" => results[f] = "success"

\* the checkpoint file found by the call could not be read or parsed
UnreadableAtCall == checkpoint_at_call \in {"corrupt", "undecodable"}

\* C22: no failure to read, parse or write the checkpoint file makes
\* translate_file fail: the call is never left by an error of loading the
\* checkpoint, a call with resume that found an unreadable or invalid
\* checkpoint parses the source and enters the translation pipeline like a
\* call without checkpoint, and when such a call is not failed by the parse,
\* the translation or the output write it returns with the output written.
C22_CheckpointIOFailureNeverFatal ==
    /\ error # "UnicodeDecodeError"
    /\ (resume /\ UnreadableAtCall)
          => /\ fPc # "raised" \/ error \in {"SubtitleError",
                           "TranslationError", "RateLimitError", "IndexError"}
             /\ fPc \in {"save", "mark", "returned"}
                   => /\ Count(log, ParseCall) = 1
                      /\ Count(log, PipelineCall) >= 1
             /\ fPc \in {"mark", "returned"} => Count(log, OutputWrite) = 1

\* the checkpoint file holds a whole checkpoint, or does not exist
WholeCheckpoints == {"absent", "parsing_complete", "translating", "complete"}

\* C28: at every moment, also after the process was interrupted during a
\* checkpoint write, the checkpoint file holds a complete checkpoint (the
\* previous one or the new one), never a half-written one.
C28_CheckpointWriteAtomic == checkpoint_file \in WholeCheckpoints

\* C37: whenever a call has written the output file and goes on to mark
\* the checkpoint complete, the output holds the translated entries, one
\* per source entry with its index, start and end, also when the call was
\* resumed from a checkpoint that carries a partial translation.
C37_OutputHoldsTheEntries ==
    (fPc \in {"mark", "returned"} /\ Count(log, OutputWrite) = 1)
        => output_file = "entries"

\* the place of a checkpoint status in the order of the phases
StatusRank(status) ==
    CASE status = "parsing_complete" -> 1
      [] status = "translating" -> 2
      [] status = "translation_complete" -> 3
      [] status = "complete" -> 4
      [] OTHER -> 0

\* C36: over all the calls for one output path, interrupted and resumed
\* ones included, a checkpoint write never replaces a status by an earlier
\* one of the order parsing_complete, translating, translation_complete,
\* complete, and a checkpoint with status complete is never overwritten.
C36_CheckpointStatusMonotonic ==
    [][/\ (checkpoint_file \in Statuses /\ checkpoint_file' \in Statuses)
             => StatusRank(checkpoint_file') >= StatusRank(checkpoint_file)
       /\ checkpoint_file = "complete" => checkpoint_file' = "complete"]_vars

\* ---------------------------------------------------------------------
\* Specification SpecSerial: the entries of a parsed file are serialized
\* with to_serialized and rebuilt with from_serialized, either directly or
\* after the serialized form went through the checkpoint file
\* (_save_checkpoint, json.load).
\* ---------------------------------------------------------------------

\* largest duration of the model
MaxDur == 2

\* a timedelta of n units, and the string str() makes of it
Timedelta(n) == [type |-> "timedelta", value |-> n]
StrOf(td) == [type |-> "str", value |-> td.value]

\* entries: index k, start and end times, one of two contents
SubtitlesOf(n) ==
    {subs \in [1..n -> [index : 1..n, start : {Timedelta(d) : d \in 0..MaxDur},
                         end : {Timedelta(d) : d \in 0..MaxDur},
                         content : {"a", "b"}]] :
        \A k \in 1..n : subs[k].index = k /\ subs[k].start.value <= subs[k].end.value}

\* to_serialized(subtitles)
to_serialized(subs) ==
    [k \in 1..Len(subs) |->
        [index |-> subs[k].index, start_time |-> subs[k].start,
         end_time |-> subs[k].end, content |-> subs[k].content]]

\* from_serialized(serialized): the fields are taken as they are
from_serialized(ser) ==
    [k \in 1..Len(ser) |->
        [index |-> ser[k].index, start |-> ser[k].start_time,
         end |-> ser[k].end_time, content |-> ser[k].content]]

\* CustomJSONEncoder.default: a timedelta is written as str(o); what
\* json.load returns for it is that string
json_value(v) == IF v.type = "timedelta" THEN StrOf(v) ELSE v

\* the serialized entries after json.dump with CustomJSONEncoder and
\* json.load
json_round_trip(ser) ==
    [k \in 1..Len(ser) |->
        [index |-> ser[k].index, start_time |-> json_value(ser[k].start_time),
         end_time |-> json_value(ser[k].end_time),
         content |-> ser[k].content]]

InitSerial ==
    /\ sPc = "parsed"
    /\ s_subtitles \in UNION {SubtitlesOf(n) : n \in 0..MaxEntries}
    /\ serialized = <<>>
    /\ on_disk = <<>>
    /\ restored = <<>>
    /\ AlignIdle
    /\ ClientIdle
    /\ FileIdle
    /\ BatchIdle
    /\ DecodeIdle
    /\ PostIdle

\* serialized = to_serialized(subtitles)
ToSerialized ==
    /\ sPc = "parsed"
    /\ serialized' = to_serialized(s_subtitles)
    /\ sPc' = "serialized"
    /\ UNCHANGED <<s_subtitles, on_disk, restored>>
    /\ UNCHANGED notSerial

\* from_serialized applied directly to the output of to_serialized
FromSerializedDirectly ==
    /\ sPc = "serialized"
    /\ restored' = from_serialized(serialized)
    /\ sPc' = "restored"
    /\ UNCHANGED <<s_subtitles, serialized, on_disk>>
    /\ UNCHANGED notSerial

\* _save_checkpoint writes the parsing_complete checkpoint, and a later
\* call loads it with json.load
SaveAndLoad ==
    /\ sPc = "serialized"
    /\ on_disk' = json_round_trip(serialized)
    /\ sPc' = "loaded"
    /\ UNCHANGED <<s_subtitles, serialized, restored>>
    /\ UNCHANGED notSerial

\* from_serialized(checkpoint_data["parsed_subtitles"]) on resume
FromSerializedOnResume ==
    /\ sPc = "loaded"
    /\ restored' = from_serialized(on_disk)
    /\ sPc' = "restored"
    /\ UNCHANGED <<s_subtitles, serialized, on_disk>>
    /\ UNCHANGED notSerial

NextSerial ==
    \/ ToSerialized
    \/ FromSerializedDirectly
    \/ SaveAndLoad
    \/ FromSerializedOnResume

SpecSerial == InitSerial /\ [][NextSerial]_vars

\* C25: the entries rebuilt by from_serialized have the index, start, end
\* and content of the entries that were serialized, both directly and after
\* the serialized form went through the checkpoint file.
C25_SerializationRoundTrip ==
    sPc = "restored"
        => /\ Len(restored) = Len(s_subtitles)
           /\ \A k \in 1..Len(restored) :
                 /\ restored[k].index = s_subtitles[k].index
                 /\ restored[k].start = s_subtitles[k].start
                 /\ restored[k].end = s_subtitles[k].end
                 /\ restored[k].content = s_subtitles[k].content

\* ---------------------------------------------------------------------
\* Specification SpecDecode: GoogleTranslator.translate without API key,
\* from the response text that __translate returned.  The response is a
\* nested array; its first element is the array of segments, and a segment
\* is an array that starts with a string (a piece of the translation) or
\* with null.
\* ---------------------------------------------------------------------

\* most top-level elements of the first array
MaxElems == 3

\* a top-level element of the first array, by its leading item
Segment(str) == [null |-> FALSE, s |-> str]
NullLed == [null |-> TRUE, s |-> <<>>]
Elements == {Segment(<<"x">>), Segment(<<"y">>), Segment(<<"x", "y">>),
             NullLed}

\* [x[0] for x in obj_result[0][:-1]]
list_sentence(obj) ==
    LET first == obj[1]
        kept == SubSeq(first, 1, Len(first) - 1)
    IN [k \in 1..Len(kept) |-> kept[k]]

\* the decoding of translate: "".join(list_sentence); joining a None raises
\* TypeError, which the last except clause turns into TranslationError
translate(obj) ==
    LET ls == list_sentence(obj)
    IN IF \E k \in 1..Len(ls) : ls[k].null
       THEN [raises |-> "TranslationError", text |-> <<>>]
       ELSE [raises |-> "none",
             text |-> Concat([k \in 1..Len(ls) |-> ls[k].s])]

InitDecode ==
    /\ dPc = "call"
    /\ \E first \in SeqsUpTo(Elements, MaxElems) : obj_result = <<first>>
    /\ decoded = <<>>
    /\ AlignIdle
    /\ ClientIdle
    /\ FileIdle
    /\ BatchIdle
    /\ SerialIdle
    /\ PostIdle

\* obj_result = json.loads(result); return "".join(list_sentence)
Translate ==
    /\ dPc = "call"
    /\ LET r == translate(obj_result)
       IN /\ decoded' = r.text
          /\ dPc' = IF r.raises = "none" THEN "returned" ELSE "raised"
    /\ UNCHANGED obj_result
    /\ UNCHANGED notDecode

NextDecode == Translate

SpecDecode == InitDecode /\ [][NextDecode]_vars

\* every top-level element of the first array starts with a string
AllLedByStrings ==
    \A k \in 1..Len(obj_result[1]) : ~obj_result[1][k].null

\* C34: without API key translate returns the leading strings of all the
\* top-level elements of the response's first array, concatenated in
\* order, none skipped and none duplicated.
C34_AllSegmentsConcatenated ==
    (dPc \in {"returned", "raised"} /\ AllLedByStrings)
       => /\ dPc = "returned"
          /\ decoded = Concat([k \in 1..Len(obj_result[1]) |->
                                 obj_result[1][k].s])

\* ---------------------------------------------------------------------
\* Specification SpecPost: the retry loop of GoogleTranslator.__post for
\* one request, with the delays it sleeps.  Times are in milliseconds.
\* ---------------------------------------------------------------------

\* self.initial_backoff, self.max_backoff (seconds) and self.jitter (0.1,
\* in thousandths)
initial_backoff == 2
max_backoff == 60
jitter == 100

\* the values random.uniform(-jitter_amount, jitter_amount) takes in the
\* model, in hundredths of jitter_amount
Draws == {-100, -50, 0, 50, 100}

RECURSIVE Pow2(_)
Pow2(n) == IF n = 0 THEN 1 ELSE 2 * Pow2(n - 1)

\* _calculate_backoff(retry_count) when random.uniform draws draw
calculate_backoff(retry_count, draw) ==
    LET backoff == Min(initial_backoff * Pow2(retry_count), max_backoff)
        jitter_amount == backoff * jitter
    IN Max(backoff * 1000 + (jitter_amount * draw) \div 100, 100)

InitPost ==
    /\ pPc = "request"
    /\ post_retry = 0
    /\ slept = <<>>
    /\ AlignIdle
    /\ ClientIdle
    /\ FileIdle
    /\ BatchIdle
    /\ SerialIdle
    /\ DecodeIdle

\* the request is answered: return response.read().decode("utf-8")
Answered ==
    /\ pPc = "request"
    /\ pPc' = "returned"
    /\ UNCHANGED <<post_retry, slept>>
    /\ UNCHANGED notPost

\* HTTP 429 or 5xx, URLError or another exception: retry_count += 1, then
\* sleep _calculate_backoff(retry_count) and try again, or raise when the
\* retries are used up
TransientFailure ==
    /\ pPc = "request"
    /\ post_retry' = post_retry + 1
    /\ IF post_retry' <= max_retries
       THEN /\ \E draw \in Draws :
                  slept' = Append(slept, calculate_backoff(post_retry', draw))
            /\ pPc' = "request"
       ELSE /\ pPc' = "raised"
            /\ UNCHANGED slept
    /\ UNCHANGED notPost

\* another HTTP error: raise TranslationError at once
HTTPError ==
    /\ pPc = "request"
    /\ pPc' = "raised"
    /\ UNCHANGED <<post_retry, slept>>
    /\ UNCHANGED notPost

NextPost ==
    \/ Answered
    \/ TransientFailure
    \/ HTTPError

SpecPost == InitPost /\ [][NextPost]_vars

\* the nominal delay before the n-th retry as the claim states it:
\* min(2 * 2^(n-1), 60) seconds
NominalDelay(n) == Min(2 * Pow2(n - 1), 60) * 1000

\* C35: the delay slept before the n-th retry is min(2 * 2^(n-1), 60)
\* seconds changed by at most 10%: about 2 s before the first retry,
\* doubling from retry to retry, never below 0.1 s and never above 66 s.
C35_BackoffDelays ==
    \A n \in 1..Len(slept) :
        /\ slept[n] >= NominalDelay(n) - NominalDelay(n) \div 10
        /\ slept[n] <= NominalDelay(n) + NominalDelay(n) \div 10
        /\ slept[n] >= 100
        /\ slept[n] <= 66000

\* ---------------------------------------------------------------------
\* Specification SpecFrame: the two entry points of SubtitleTranslator that
\* take a resume argument.  A behaviour is a sequence of translate_file
\* calls for one output path (as in Spec) or a sequence of
\* batch_translate_directory calls for one output directory (as in
\* SpecBatch), each call with resume on or off.
\* ---------------------------------------------------------------------

InitFrame ==
    /\ FileAtRest
    /\ translator \in Translators
    /\ BatchIdle
    /\ AlignIdle
    /\ ClientIdle
    /\ SerialIdle
    /\ DecodeIdle
    /\ PostIdle

NextFrame ==
    \/ bPc = "idle" /\ Next
    \/ fPc = "idle" /\ NextBatch

SpecFrame == InitFrame /\ [][NextFrame]_vars

\* the files of the directory up to file n, in directory order
FilesUpTo(n) == [k \in 1..n |-> k]

\* C38: a translate_file call with resume off never reads and never writes
\* the checkpoint file, and parses, translates and writes the output even
\* when a checkpoint with status complete exists; a
\* batch_translate_directory call with resume off never reads and never
\* writes the BatchState file and passes every file to translate_file,
\* whatever the BatchState file records.
C38_ResumeOffLeavesStateFilesAlone ==
    /\ [](/\ (fPc # "idle" /\ ~resume)
                => /\ checkpoint_data = "none"
                   /\ \A k \in 1..Len(log) : log[k] \notin CheckpointWrites
                   /\ fPc = "returned"
                         => /\ Count(log, ParseCall) = 1
                            /\ Count(log, PipelineCall) >= 1
                            /\ Count(log, OutputWrite) = 1
          /\ (bPc # "idle" /\ ~b_resume)
                => /\ loaded_state = NoEntries
                   /\ bPc \in {"loop", "returned"}
                         => attempts = FilesUpTo(b_i - 1)
                   /\ bPc = "raised" => attempts = FilesUpTo(b_i))
    /\ [][/\ ~resume' => checkpoint_file' = checkpoint_file
          /\ ~b_resume' => batch_state_file' = batch_state_file]_vars

\* a call with resume off found a checkpoint with status complete, wrote
\* the output again and returned, the checkpoint still as it was
C38_Witness ==
    /\ fPc = "returned"
    /\ ~resume
    /\ checkpoint_at_call = "complete"
    /\ checkpoint_file = "complete"
    /\ Count(log, ParseCall) = 1
    /\ Count(log, OutputWrite) = 1

====
